---- MODULE Spec2Model ----
(***************************************************************************)
(* FIFO lot matching and portfolio overview of portox                      *)
(* (backend/app/services/pnl_service.py, analytics_service.py).            *)
(*                                                                         *)
(* Money is exact: a price or a fee is an integer number of currency       *)
(* units, and every per-share fee, PnL and valuation is kept as an integer *)
(* number of 1/Scale units, where Scale is a common multiple of every      *)
(* quantity a fee can be divided by.  Floating-point rounding is outside   *)
(* the model.                                                              *)
(*                                                                         *)
(* A string is a sequence of one-character strings, so that upper() and    *)
(* strip() are computed instead of assumed.                                *)
(***************************************************************************)
EXTENDS Integers, Sequences, FiniteSets, TLC

VARIABLES
    trades,         \* the stored trades of the account, as handed to compute_fifo
    pc,             \* where the request is: "idle", "loop", "returned", "done"
    trades_sorted,  \* compute_fifo local: the trades in processing order
    idx,            \* compute_fifo local: number of trades already processed
    realized,       \* compute_fifo local: the realized matches emitted so far
    positions,      \* compute_fifo local: symbol -> [long, short] lot queues
    mark,           \* compute_fifo local: symbol -> last traded price
    request,        \* the overview request being served: [marks, strict]
    snapshot,       \* what the overview request returned (status "none" before)
    previous        \* <<realized, positions, mark>> of the run before, or <<>>

vars == <<trades, pc, trades_sorted, idx, realized, positions, mark,
          request, snapshot, previous>>

---------------------------------------------------------------------------
\* Bounds of the model.

\* Longest trade list handed to compute_fifo alone.
MaxTrades == 3

\* Longest trade list of an account whose overview is requested.
MaxOverviewTrades == 2

\* Largest quantity of one trade.
MaxQty == 2

\* A trade is of one share or of the largest quantity.
Quantities == {1, MaxQty}

\* A trade is made at one of two price / fee terms.
TradeTerms == {[price |-> 100, fees |-> 0], [price |-> 120, fees |-> 1]}

\* Symbols as the account stores them; they normalise to "A" and "B".
RawSymbols == {<<"a", " ">>, <<"B">>}

\* Keys and values of the marks a caller sends; "a" and "A" both normalise
\* to "A", " b" to "B".
MarkKeys == {<<"a">>, <<"A">>, <<" ", "b">>}

MarkValues == {-5, 0, 110}

\* trade_time of the k-th stored row: the second row is backdated before the
\* first, the third ties with the first, and so on in groups of three.
TradeTime(k) == IF k % 3 = 1 THEN k + 1 ELSE k - 1

---------------------------------------------------------------------------
\* Arithmetic helpers.

Min(a, b) == IF a <= b THEN a ELSE b

RECURSIVE Gcd(_, _)
Gcd(a, b) == IF b = 0 THEN a ELSE Gcd(b, a % b)

RECURSIVE LcmUpTo(_)
LcmUpTo(n) == IF n <= 1 THEN 1 ELSE LET l == LcmUpTo(n - 1) IN (l * n) \div Gcd(l, n)

\* One currency unit is Scale units of the model's fixed-point money.
Scale == LcmUpTo(MaxQty)

---------------------------------------------------------------------------
\* str.upper() and str.strip() on the model's alphabet.

UpperChar(c) ==
    CASE c = "a" -> "A"
      [] c = "b" -> "B"
      [] OTHER -> c

IsSpace(c) == c = " "

RECURSIVE LStrip(_)
LStrip(s) == IF s # <<>> /\ IsSpace(Head(s)) THEN LStrip(Tail(s)) ELSE s

RECURSIVE RStrip(_)
RStrip(s) ==
    IF s # <<>> /\ IsSpace(s[Len(s)]) THEN RStrip(SubSeq(s, 1, Len(s) - 1)) ELSE s

Upper(s) == [k \in 1..Len(s) |-> UpperChar(s[k])]

Strip(s) == RStrip(LStrip(s))

\* Variant: the symbol is trimmed and not uppercased.
NormSymbolStripOnly(s) == Strip(s)

\* sym = t.symbol.upper().strip()
NormSymbol(s) == Strip(Upper(s))

---------------------------------------------------------------------------
\* pnl_service.py

\* Variant: the division is an integer division.
_fee_per_share_floordiv(qty, fees) ==
    IF qty <= 0 THEN 0 ELSE (fees \div qty) * Scale

\* fees / qty in 1/Scale units; exact because qty divides Scale.
_fee_per_share(qty, fees) ==
    IF qty <= 0 THEN 0 ELSE (fees * Scale) \div qty

\* Variant: a trade goes before the trades of its own trade_time.
RECURSIVE InsertByTimeBeforeEqual(_, _)
InsertByTimeBeforeEqual(t, s) ==
    IF s = <<>> THEN <<t>>
    ELSE IF Head(s).trade_time < t.trade_time
         THEN <<Head(s)>> \o InsertByTimeBeforeEqual(t, Tail(s))
         ELSE <<t>> \o s

\* Where a trade of key k goes in an already sorted list: after every element
\* whose key is <= k (sorted() is stable).
RECURSIVE InsertByTime(_, _)
InsertByTime(t, s) ==
    IF s = <<>> THEN <<t>>
    ELSE IF Head(s).trade_time <= t.trade_time
         THEN <<Head(s)>> \o InsertByTime(t, Tail(s))
         ELSE <<t>> \o s

\* Variant: the trades are processed in the order given, unsorted.
SortedByTimeAsGiven(s) == s

\* sorted(trades, key=lambda t: t.trade_time)
RECURSIVE SortedByTime(_)
SortedByTime(s) ==
    IF s = <<>> THEN <<>>
    ELSE InsertByTime(s[Len(s)], SortedByTime(SubSeq(s, 1, Len(s) - 1)))

\* Variant: a closed long is priced like a closed short.
MatchPnlShortOnly(side_closed, lot, t, fee_ps, m) ==
    (lot.price - t.price) * Scale * m - (lot.fee_per_share + fee_ps) * m

\* The pnl of closing m shares of lot with trade t (1/Scale units).
MatchPnl(side_closed, lot, t, fee_ps, m) ==
    IF side_closed = "SHORT"
    THEN (lot.price - t.price) * Scale * m - (lot.fee_per_share + fee_ps) * m
    ELSE (t.price - lot.price) * Scale * m - (lot.fee_per_share + fee_ps) * m

NewMatch(sym, side_closed, lot, t, fee_ps, m) ==
    [symbol |-> sym, qty |-> m,
     entry_trade_id |-> lot.trade_id, exit_trade_id |-> t.id,
     entry_price |-> lot.price, exit_price |-> t.price,
     entry_time |-> lot.time, exit_time |-> t.trade_time,
     side_closed |-> side_closed,
     pnl |-> MatchPnl(side_closed, lot, t, fee_ps, m)]

\* Variant: `if` for `while`, only the head lot is closed.
CloseLotsOnce(lots, remaining, sym, side_closed, t, fee_ps) ==
    IF remaining > 0 /\ lots # <<>>
    THEN LET lot == Head(lots)
             m == Min(remaining, lot.qty)
         IN [lots |-> IF lot.qty = m THEN Tail(lots)
                      ELSE [lots EXCEPT ![1].qty = lot.qty - m],
             remaining |-> remaining - m,
             matches |-> <<NewMatch(sym, side_closed, lot, t, fee_ps, m)>>]
    ELSE [lots |-> lots, remaining |-> remaining, matches |-> <<>>]

\* Variant: the newest lot is closed first (lots[-1], pop()).
RECURSIVE CloseLotsNewest(_, _, _, _, _, _)
CloseLotsNewest(lots, remaining, sym, side_closed, t, fee_ps) ==
    IF remaining > 0 /\ lots # <<>>
    THEN LET n == Len(lots)
             lot == lots[n]
             m == Min(remaining, lot.qty)
             lots2 == IF lot.qty = m THEN SubSeq(lots, 1, n - 1)
                      ELSE [lots EXCEPT ![n].qty = lot.qty - m]
             rest == CloseLotsNewest(lots2, remaining - m, sym, side_closed, t, fee_ps)
         IN [lots |-> rest.lots, remaining |-> rest.remaining,
             matches |-> <<NewMatch(sym, side_closed, lot, t, fee_ps, m)>> \o rest.matches]
    ELSE [lots |-> lots, remaining |-> remaining, matches |-> <<>>]

\* Variant: remaining is not reduced by what a lot absorbed.
RECURSIVE CloseLotsKeepRemaining(_, _, _, _, _, _)
CloseLotsKeepRemaining(lots, remaining, sym, side_closed, t, fee_ps) ==
    IF remaining > 0 /\ lots # <<>>
    THEN LET lot == Head(lots)
             m == Min(remaining, lot.qty)
             lots2 == IF lot.qty = m THEN Tail(lots)
                      ELSE [lots EXCEPT ![1].qty = lot.qty - m]
             rest == CloseLotsKeepRemaining(lots2, remaining, sym, side_closed, t, fee_ps)
         IN [lots |-> rest.lots, remaining |-> rest.remaining,
             matches |-> <<NewMatch(sym, side_closed, lot, t, fee_ps, m)>> \o rest.matches]
    ELSE [lots |-> lots, remaining |-> remaining, matches |-> <<>>]

\* Variant: m = remaining, the head lot absorbs all that is left.
RECURSIVE CloseLotsNoMin(_, _, _, _, _, _)
CloseLotsNoMin(lots, remaining, sym, side_closed, t, fee_ps) ==
    IF remaining > 0 /\ lots # <<>>
    THEN LET lot == Head(lots)
             m == remaining
             lots2 == IF lot.qty - m = 0 THEN Tail(lots)
                      ELSE [lots EXCEPT ![1].qty = lot.qty - m]
             rest == CloseLotsNoMin(lots2, remaining - m, sym, side_closed, t, fee_ps)
         IN [lots |-> rest.lots, remaining |-> rest.remaining,
             matches |-> <<NewMatch(sym, side_closed, lot, t, fee_ps, m)>> \o rest.matches]
    ELSE [lots |-> lots, remaining |-> remaining, matches |-> <<>>]

\* while remaining > 0 and lots: close m shares of the head lot (lots[0]),
\* pop it when its qty reaches 0.
RECURSIVE CloseLots(_, _, _, _, _, _)
CloseLots(lots, remaining, sym, side_closed, t, fee_ps) ==
    IF remaining > 0 /\ lots # <<>>
    THEN LET lot == Head(lots)
             m == Min(remaining, lot.qty)
             lots2 == IF lot.qty - m = 0 THEN Tail(lots)
                      ELSE [lots EXCEPT ![1].qty = lot.qty - m]
             rest == CloseLots(lots2, remaining - m, sym, side_closed, t, fee_ps)
         IN [lots |-> rest.lots, remaining |-> rest.remaining,
             matches |-> <<NewMatch(sym, side_closed, lot, t, fee_ps, m)>> \o rest.matches]
    ELSE [lots |-> lots, remaining |-> remaining, matches |-> <<>>]

\* Variant: the new lot takes the whole quantity of the trade.
OpenLotWhole(lots, remaining, t, fee_ps) ==
    IF remaining > 0
    THEN Append(lots, [qty |-> t.quantity, trade_id |-> t.id, price |-> t.price,
                       fee_per_share |-> fee_ps, time |-> t.trade_time])
    ELSE lots

\* Variant: `remaining >= 0`, a trade with nothing left opens an empty lot.
OpenLotNonNegative(lots, remaining, t, fee_ps) ==
    IF remaining >= 0
    THEN Append(lots, [qty |-> remaining, trade_id |-> t.id, price |-> t.price,
                       fee_per_share |-> fee_ps, time |-> t.trade_time])
    ELSE lots

\* Remaining opens a lot in the trade's own direction.
OpenLot(lots, remaining, t, fee_ps) ==
    IF remaining > 0
    THEN Append(lots, [qty |-> remaining, trade_id |-> t.id, price |-> t.price,
                       fee_per_share |-> fee_ps, time |-> t.trade_time])
    ELSE lots

EmptyPosition == [long |-> <<>>, short |-> <<>>]

\* positions.setdefault(sym, {"long": [], "short": []})
SetDefault(pos, sym) ==
    IF sym \in DOMAIN pos THEN pos
    ELSE [s \in DOMAIN pos \cup {sym} |-> IF s = sym THEN EmptyPosition ELSE pos[s]]

\* Variant: the first value of a key is kept (setdefault for assignment).
DictSetKeepFirst(d, k, v) ==
    [s \in DOMAIN d \cup {k} |-> IF s \in DOMAIN d THEN d[s] ELSE v]

\* d[k] = v on a dict
DictSet(d, k, v) == [s \in DOMAIN d \cup {k} |-> IF s = k THEN v ELSE d[s]]

\* The new position of the trade's symbol and the matches the trade emits.
TradeEffect(p, sym, t) ==
    LET fee_ps == _fee_per_share(t.quantity, t.fees)
    IN IF t.side = "BUY"
       THEN LET c == CloseLots(p.short, t.quantity, sym, "SHORT", t, fee_ps)
            IN [position |-> [long |-> OpenLot(p.long, c.remaining, t, fee_ps),
                              short |-> c.lots],
                matches |-> c.matches]
       ELSE LET c == CloseLots(p.long, t.quantity, sym, "LONG", t, fee_ps)
            IN [position |-> [long |-> c.lots,
                              short |-> OpenLot(p.short, c.remaining, t, fee_ps)],
                matches |-> c.matches]

EmptyDict == [s \in {} |-> 0]

\* d.get(k, default)
DictGet(d, k, default) == IF k \in DOMAIN d THEN d[k] ELSE default

\* sum(l.qty for l in lots)
RECURSIVE QueueQty(_)
QueueQty(lots) == IF lots = <<>> THEN 0 ELSE Head(lots).qty + QueueQty(Tail(lots))

\* for lot in lots["long"]: total += px * qty - (price + fee_per_share) * qty
RECURSIVE LongValue(_, _)
LongValue(lots, px) ==
    IF lots = <<>> THEN 0
    ELSE LET lot == Head(lots)
         IN px * Scale * lot.qty - (lot.price * Scale + lot.fee_per_share) * lot.qty
            + LongValue(Tail(lots), px)

\* Variant: the entry fee of a short lot is added to its proceeds.
RECURSIVE ShortValueAddsFee(_, _)
ShortValueAddsFee(lots, px) ==
    IF lots = <<>> THEN 0
    ELSE LET lot == Head(lots)
         IN (lot.price * Scale + lot.fee_per_share) * lot.qty - px * Scale * lot.qty
            + ShortValueAddsFee(Tail(lots), px)

\* for lot in lots["short"]: total += (price - fee_per_share) * qty - px * qty
RECURSIVE ShortValue(_, _)
ShortValue(lots, px) ==
    IF lots = <<>> THEN 0
    ELSE LET lot == Head(lots)
         IN (lot.price * Scale - lot.fee_per_share) * lot.qty - px * Scale * lot.qty
            + ShortValue(Tail(lots), px)

\* Variant: a symbol without a mark is left out of the valuation (total 0).
compute_unrealized_skips_unmarked(pos, mk) ==
    [sym \in DOMAIN pos |->
        IF sym \in DOMAIN mk
        THEN LongValue(pos[sym].long, mk[sym]) + ShortValue(pos[sym].short, mk[sym])
        ELSE 0]

\* compute_unrealized: per symbol, valued at mark.get(sym, 0.0) (1/Scale units).
compute_unrealized(pos, mk) ==
    [sym \in DOMAIN pos |->
        LongValue(pos[sym].long, DictGet(mk, sym, 0))
        + ShortValue(pos[sym].short, DictGet(mk, sym, 0))]

---------------------------------------------------------------------------
\* analytics_service.py

\* Variant: the keys are taken as sent.
RECURSIVE _normalize_marks_raw(_)
_normalize_marks_raw(marks) ==
    IF marks = <<>> THEN EmptyDict
    ELSE LET last == marks[Len(marks)]
         IN DictSet(_normalize_marks_raw(SubSeq(marks, 1, Len(marks) - 1)),
                    last.key, last.value)

\* {str(k).upper().strip(): float(v) for k, v in marks.items()}: entries are
\* taken in the order of the request, a later one replacing an earlier one
\* of the same normalised key.
RECURSIVE _normalize_marks(_)
_normalize_marks(marks) ==
    IF marks = <<>> THEN EmptyDict
    ELSE LET last == marks[Len(marks)]
         IN DictSet(_normalize_marks(SubSeq(marks, 1, Len(marks) - 1)),
                    NormSymbol(last.key), last.value)

\* Variant: no `if v > 0`, every mark of the caller takes part.
UsableMarksOfAnyValue(marks_norm) == DOMAIN marks_norm

\* The caller's marks that take part in the valuation.
UsableMarks(marks_norm) == {k \in DOMAIN marks_norm : marks_norm[k] > 0}

\* effective_mark = dict(last_trade_mark); effective_mark.update(usable marks)
EffectiveMark(last_trade_mark, marks_norm) ==
    [s \in DOMAIN last_trade_mark \cup UsableMarks(marks_norm) |->
        IF s \in UsableMarks(marks_norm) THEN marks_norm[s] ELSE last_trade_mark[s]]

\* Code points of the model's alphabet, for sorted() on strings.
CharCode(c) ==
    CASE c = " " -> 32
      [] c = "A" -> 65
      [] c = "B" -> 66
      [] c = "a" -> 97
      [] c = "b" -> 98

RECURSIVE StrLess(_, _)
StrLess(s, u) ==
    IF u = <<>> THEN FALSE
    ELSE IF s = <<>> THEN TRUE
    ELSE IF CharCode(Head(s)) # CharCode(Head(u))
         THEN CharCode(Head(s)) < CharCode(Head(u))
         ELSE StrLess(Tail(s), Tail(u))

\* sorted(S) for a set of strings
RECURSIVE SortedStrings(_)
SortedStrings(S) ==
    IF S = {} THEN <<>>
    ELSE LET least == CHOOSE s \in S : \A u \in S \ {s} : StrLess(s, u)
         IN <<least>> \o SortedStrings(S \ {least})

\* The keys of positions in insertion order: setdefault runs once per trade,
\* in processing order, so a symbol enters at its first trade.
RECURSIVE KeyOrder(_)
KeyOrder(ts) ==
    IF ts = <<>> THEN <<>>
    ELSE LET before == KeyOrder(SubSeq(ts, 1, Len(ts) - 1))
             sym == NormSymbol(ts[Len(ts)].symbol)
         IN IF \E k \in 1..Len(before) : before[k] = sym
            THEN before ELSE Append(before, sym)

\* Variant: a row for either side whether or not the side has open quantity.
OpenRowsUnguarded(sym, lots, px, unrealized_by_symbol) ==
    LET Row(side, qty) ==
            [symbol |-> sym, side |-> side, quantity |-> qty, mark_price |-> px,
             unrealized_pnl |-> DictGet(unrealized_by_symbol, sym, 0)]
    IN <<Row("LONG", QueueQty(lots.long)), Row("SHORT", QueueQty(lots.short))>>

\* The rows one symbol adds to open_positions (avg_cost is not modelled).
OpenRows(sym, lots, px, unrealized_by_symbol) ==
    LET long_qty == QueueQty(lots.long)
        short_qty == QueueQty(lots.short)
        Row(side, qty) ==
            [symbol |-> sym, side |-> side, quantity |-> qty, mark_price |-> px,
             unrealized_pnl |-> DictGet(unrealized_by_symbol, sym, 0)]
    IN (IF long_qty # 0 THEN <<Row("LONG", long_qty)>> ELSE <<>>)
       \o (IF short_qty # 0 THEN <<Row("SHORT", short_qty)>> ELSE <<>>)

RECURSIVE OpenPositions(_, _, _, _)
OpenPositions(keys, pos, effective_mark, unrealized_by_symbol) ==
    IF keys = <<>> THEN <<>>
    ELSE OpenRows(Head(keys), pos[Head(keys)],
                  DictGet(effective_mark, Head(keys), 0), unrealized_by_symbol)
         \o OpenPositions(Tail(keys), pos, effective_mark, unrealized_by_symbol)

\* sorted({s for s in open_symbols if s not in marks_norm})
MissingMarks(open_positions, marks_norm) ==
    SortedStrings({open_positions[k].symbol : k \in 1..Len(open_positions)}
                  \ DOMAIN marks_norm)

\* sum(m.pnl for m in realized)
RECURSIVE SumPnl(_)
SumPnl(ms) == IF ms = <<>> THEN 0 ELSE Head(ms).pnl + SumPnl(Tail(ms))

\* sum(unrealized_by_symbol.values())
RECURSIVE SumValues(_, _)
SumValues(d, keys) ==
    IF keys = {} THEN 0
    ELSE LET k == CHOOSE x \in keys : TRUE IN d[k] + SumValues(d, keys \ {k})

Max(a, b) == IF a >= b THEN a ELSE b

\* wins = [m.pnl for m in realized if m.pnl > 0]
Wins(real) == LET IsWin(m) == m.pnl > 0 IN SelectSeq(real, IsWin)

\* Variant: a match of pnl 0 is a loss.
LossesWithZero(real) == LET IsLoss(m) == m.pnl <= 0 IN SelectSeq(real, IsLoss)

\* losses = [m.pnl for m in realized if m.pnl < 0]
Losses(real) == LET IsLoss(m) == m.pnl < 0 IN SelectSeq(real, IsLoss)

\* win_rate = len(wins) / max(1, len(wins) + len(losses)), as a fraction.
WinRate(wins, losses) ==
    [num |-> Len(wins), den |-> Max(1, Len(wins) + Len(losses))]

\* utils/calculations.py

\* max_drawdown, lines 16-21: the loop over the points still to read, with
\* the running peak (<<>> for None) and the largest drop so far.
RECURSIVE max_drawdown_loop(_, _, _)
max_drawdown_loop(points, peak, mdd) ==
    IF points = <<>> THEN mdd
    ELSE LET p == Head(points)
             new_peak == IF peak = <<>> THEN p.equity ELSE Max(peak[1], p.equity)
             dd == new_peak - p.equity
         IN max_drawdown_loop(Tail(points), <<new_peak>>, Max(mdd, dd))

\* Variant: the peak starts at equity 0, not at the first point.
max_drawdown_from_zero(points) == max_drawdown_loop(points, <<0>>, 0)

\* max_drawdown(points): running peak minus current equity, maximised.
max_drawdown(points) == max_drawdown_loop(points, <<>>, 0)

\* What a metric function returns: None, a number, or an exception raised.
\* A number is kept exact: a fraction num / den, or excess / sqrt(variance)
\* with both parts fractions.
Null == [kind |-> "null"]

Raised(error) == [kind |-> "raise", error |-> error]

Abs(x) == IF x >= 0 THEN x ELSE -x

\* a / b on floats: ZeroDivisionError when b is 0.
Divide(a, b) ==
    IF b = 0 THEN Raised("ZeroDivisionError")
    ELSE [kind |-> "value", num |-> a, den |-> b]

\* excess / math.sqrt(variance), both fractions with positive denominators.
DivideBySqrt(excess, variance) ==
    IF variance.num = 0 THEN Raised("ZeroDivisionError")
    ELSE [kind |-> "value", excess |-> excess, variance |-> variance]

\* The largest magnitude a float can have for its square to be a float
\* (about 1.34e154 for the program's doubles; the model's numbers are scaled
\* down). x ** 2 raises OverflowError above it.
SqrtFloatMax == 1000

RECURSIVE SumSeq(_)
SumSeq(s) == IF s = <<>> THEN 0 ELSE Head(s) + SumSeq(Tail(s))

RECURSIVE SumSquares(_)
SumSquares(s) == IF s = <<>> THEN 0 ELSE Head(s) * Head(s) + SumSquares(Tail(s))

\* sharpe_ratio, lines 34-43. r - mean_return is (n * r - sum) / n, the
\* variance the sum of their squares over n - 1.
sharpe_ratio(returns, risk_free_rate) ==
    IF returns = <<>> \/ Len(returns) < 2 THEN Null
    ELSE LET n == Len(returns)
             total == SumSeq(returns)
             dev == [k \in 1..n |-> n * returns[k] - total]
         IN IF \E k \in 1..n : Abs(dev[k]) > n * SqrtFloatMax
            THEN Raised("OverflowError")
            ELSE IF SumSquares(dev) = 0 THEN Null
            ELSE DivideBySqrt([num |-> total - n * risk_free_rate, den |-> n],
                              [num |-> SumSquares(dev), den |-> n * n * (n - 1)])

\* sortino_ratio, lines 46-58.
sortino_ratio(returns, risk_free_rate) ==
    IF returns = <<>> \/ Len(returns) < 2 THEN Null
    ELSE LET n == Len(returns)
             total == SumSeq(returns)
             IsDownside(r) == r < 0
             downside_returns == SelectSeq(returns, IsDownside)
         IN IF downside_returns = <<>> THEN Null
            ELSE IF \E k \in 1..Len(downside_returns) :
                        Abs(downside_returns[k]) > SqrtFloatMax
            THEN Raised("OverflowError")
            ELSE IF SumSquares(downside_returns) = 0 THEN Null
            ELSE DivideBySqrt([num |-> total - n * risk_free_rate, den |-> n],
                              [num |-> SumSquares(downside_returns),
                               den |-> Len(downside_returns)])

\* calmar_ratio, lines 61-67.
calmar_ratio(total_return, max_dd) ==
    IF max_dd = 0 \/ max_dd < 0 THEN Null
    ELSE IF max_dd > 0 THEN Divide(Abs(total_return), Abs(max_dd)) ELSE Null

\* Variant: a positive gross_loss is the loss figure.
profit_factor_positive_loss(gross_profit, gross_loss) ==
    IF gross_loss = 0 THEN Null
    ELSE IF gross_loss > 0 THEN Divide(Abs(gross_profit), Abs(gross_loss)) ELSE Null

\* profit_factor, lines 70-74.
profit_factor(gross_profit, gross_loss) ==
    IF gross_loss = 0 THEN Null
    ELSE IF gross_loss < 0 THEN Divide(Abs(gross_profit), Abs(gross_loss)) ELSE Null

\* sum(xs) / len(xs) if xs else 0.0, as a fraction.
Average(xs) == [num |-> SumSeq(xs), den |-> Max(1, Len(xs))]

\* Variant: avg_win + avg_loss, not weighted by the win rate.
expectancy_unweighted(wins, losses, win_rate) ==
    IF wins = <<>> /\ losses = <<>> THEN Null
    ELSE LET avg_win == Average(wins)
             avg_loss == Average(losses)
         IN [kind |-> "value",
             num |-> avg_win.num * avg_loss.den + avg_loss.num * avg_win.den,
             den |-> avg_win.den * avg_loss.den]

\* expectancy, lines 77-83; win_rate is a fraction.
expectancy(wins, losses, win_rate) ==
    IF wins = <<>> /\ losses = <<>> THEN Null
    ELSE LET avg_win == Average(wins)
             avg_loss == Average(losses)
         IN [kind |-> "value",
             num |-> win_rate.num * avg_win.num * avg_loss.den
                     + (win_rate.den - win_rate.num) * avg_loss.num * avg_win.den,
             den |-> win_rate.den * avg_win.den * avg_loss.den]

---------------------------------------------------------------------------
\* analytics_service.py: the metrics of the overview.

\* Where a match goes in a list already sorted by exit_time: after every
\* match whose exit_time is <= its own (sorted() is stable).
RECURSIVE InsertByExit(_, _)
InsertByExit(m, s) ==
    IF s = <<>> THEN <<m>>
    ELSE IF Head(s).exit_time <= m.exit_time
         THEN <<Head(s)>> \o InsertByExit(m, Tail(s))
         ELSE <<m>> \o s

\* realized_sorted = sorted(realized, key=lambda m: m.exit_time)
RECURSIVE SortedByExit(_)
SortedByExit(s) ==
    IF s = <<>> THEN <<>>
    ELSE InsertByExit(s[Len(s)], SortedByExit(SubSeq(s, 1, Len(s) - 1)))

\* equity_points: one point per match of realized_sorted, the running sum
\* of pnl that starts from cum.
RECURSIVE EquityPoints(_, _)
EquityPoints(ms, cum) ==
    IF ms = <<>> THEN <<>>
    ELSE LET c == cum + Head(ms).pnl
         IN <<[t |-> Head(ms).exit_time, equity |-> c]>> \o EquityPoints(Tail(ms), c)

\* Variant: the curve starts with a point of equity 0 before the first match.
DrawdownFromStart(equity_points) ==
    IF equity_points # <<>>
    THEN max_drawdown(<<[t |-> 0, equity |-> 0]>> \o equity_points) ELSE 0

\* drawdown = max_drawdown(equity_points) if equity_points else 0.0
Drawdown(equity_points) ==
    IF equity_points # <<>> THEN max_drawdown(equity_points) ELSE 0

\* [m.pnl for m in ms]
Pnls(ms) == [k \in 1..Len(ms) |-> ms[k].pnl]

\* risk_reward = avg_win / abs(avg_loss) if avg_loss < 0 else None, the
\* averages being sums over max(1, len).
RiskReward(wins, losses) ==
    LET avg_win == Average(wins)
        avg_loss == Average(losses)
    IN IF avg_loss.num < 0
       THEN Divide(avg_win.num * avg_loss.den, avg_win.den * Abs(avg_loss.num))
       ELSE Null

\* Variant: the mean is taken of an empty list too.
AvgHoldingPeriodOfAny(holding_periods) ==
    Divide(SumSeq(holding_periods), Len(holding_periods))

\* holding_periods: exit_time - entry_time of each match, and their mean.
HoldingPeriods(ms) == [k \in 1..Len(ms) |-> ms[k].exit_time - ms[k].entry_time]

AvgHoldingPeriod(holding_periods) ==
    IF holding_periods # <<>>
    THEN Divide(SumSeq(holding_periods), Len(holding_periods))
    ELSE Null

\* Lines 61-78: the advanced metrics of the overview.
AdvancedMetrics(real, realized_sorted, realized_pnl, drawdown) ==
    LET wins == Pnls(Wins(real))
        losses == Pnls(Losses(real))
        gross_profit == IF wins # <<>> THEN SumSeq(wins) ELSE 0
        gross_loss == IF losses # <<>> THEN SumSeq(losses) ELSE 0
        daily_returns == Pnls(realized_sorted)
    IN [sharpe_ratio |->
            IF daily_returns # <<>> THEN sharpe_ratio(daily_returns, 0) ELSE Null,
        sortino_ratio |->
            IF daily_returns # <<>> THEN sortino_ratio(daily_returns, 0) ELSE Null,
        calmar_ratio |->
            IF drawdown > 0 THEN calmar_ratio(realized_pnl, drawdown) ELSE Null,
        profit_factor |-> profit_factor(gross_profit, gross_loss),
        expectancy |-> expectancy(wins, losses, WinRate(Wins(real), Losses(real))),
        avg_holding_period_days |-> AvgHoldingPeriod(HoldingPeriods(realized_sorted))]

\* performance_from_trades and calculate_strategy_comparison_matrix.

\* Variant: a match of pnl 0 leaves both running counts as they are.
RECURSIVE StreaksLoopZeroKeeps(_, _, _, _, _)
StreaksLoopZeroKeeps(ms, cur_win, cur_loss, max_win, max_loss) ==
    IF ms = <<>>
    THEN [max_win_streak |-> max_win, max_loss_streak |-> max_loss]
    ELSE LET m == Head(ms)
             w == IF m.pnl > 0 THEN cur_win + 1 ELSE IF m.pnl < 0 THEN 0 ELSE cur_win
             l == IF m.pnl > 0 THEN 0 ELSE IF m.pnl < 0 THEN cur_loss + 1 ELSE cur_loss
         IN StreaksLoopZeroKeeps(Tail(ms), w, l, Max(max_win, w), Max(max_loss, l))

StreaksZeroKeeps(realized_sorted) == StreaksLoopZeroKeeps(realized_sorted, 0, 0, 0, 0)

\* performance_from_trades, lines 216-227: the loop over the matches still
\* to read, with cur_win, cur_loss and the two maxima.
RECURSIVE StreaksLoop(_, _, _, _, _)
StreaksLoop(ms, cur_win, cur_loss, max_win, max_loss) ==
    IF ms = <<>>
    THEN [max_win_streak |-> max_win, max_loss_streak |-> max_loss]
    ELSE LET m == Head(ms)
             w == IF m.pnl > 0 THEN cur_win + 1 ELSE 0
             l == IF m.pnl < 0 THEN cur_loss + 1 ELSE 0
         IN StreaksLoop(Tail(ms), w, l, Max(max_win, w), Max(max_loss, l))

\* Lines 211-227.
Streaks(realized_sorted) == StreaksLoop(realized_sorted, 0, 0, 0, 0)

\* The key of untagged matches in the breakdowns (an em dash in the program)
\* and in the strategy matrix.
Dash == <<"-">>

Unknown == <<"U", "n", "k", "n", "o", "w", "n">>

\* journal_by_trade_id.get(id, {}).get(field), <<>> for None and for "".
TagOf(journal, id, field) ==
    IF id \in DOMAIN journal THEN journal[id][field] ELSE <<>>

\* (tag.get(field) or "—").strip()
TagOrDash(tag_value) == Strip(IF tag_value # <<>> THEN tag_value ELSE Dash)

\* Lines 247-249: the breakdown key of each match, from its exit trade.
BreakdownKeys(ms, journal, field) ==
    [k \in 1..Len(ms) |-> TagOrDash(TagOf(journal, ms[k].exit_trade_id, field))]

\* Line 248: sym = m.symbol.
SymbolKeys(ms) == [k \in 1..Len(ms) |-> ms[k].symbol]

\* Lines 183-185 of trade_analysis_service.py: the strategy of each match,
\* from its entry trade; "Unknown" when absent, empty or blank.
MatrixKeys(ms, journal) ==
    [k \in 1..Len(ms) |->
        LET strategy == TagOf(journal, ms[k].entry_trade_id, "strategy")
        IN IF strategy = <<>> \/ Strip(strategy) = <<>> THEN Unknown ELSE strategy]

\* bucket[key] updated with one match; a bucket is a dict kept as the list
\* of its entries in insertion order, a new key starting from zeros.
BucketAdd(bucket, key, m) ==
    LET Added(e) ==
            [e EXCEPT !.pnl = @ + m.pnl,
                      !.matches = @ + 1,
                      !.wins = IF m.pnl > 0 THEN @ + 1 ELSE @,
                      !.losses = IF m.pnl < 0 THEN @ + 1 ELSE @,
                      !.win_pnl = IF m.pnl > 0 THEN @ + m.pnl ELSE @,
                      !.loss_pnl = IF m.pnl < 0 THEN @ + m.pnl ELSE @]
    IN IF \E i \in 1..Len(bucket) : bucket[i].key = key
       THEN [i \in 1..Len(bucket) |->
                IF bucket[i].key = key THEN Added(bucket[i]) ELSE bucket[i]]
       ELSE Append(bucket, Added([key |-> key, pnl |-> 0, matches |-> 0, wins |-> 0,
                                  losses |-> 0, win_pnl |-> 0, loss_pnl |-> 0]))

\* The loop over the matches: match k goes to the bucket entry of keys[k].
RECURSIVE Grouped(_, _, _)
Grouped(ms, keys, n) ==
    IF n = 0 THEN <<>> ELSE BucketAdd(Grouped(ms, keys, n - 1), keys[n], ms[n])

\* Variant: key=lambda x: x["pnl"], the sign of the pnl decides.
RECURSIVE InsertBySignedPnl(_, _)
InsertBySignedPnl(row, s) ==
    IF s = <<>> THEN <<row>>
    ELSE IF Head(s).pnl >= row.pnl
         THEN <<Head(s)>> \o InsertBySignedPnl(row, Tail(s))
         ELSE <<row>> \o s

\* sorted(out, key=lambda x: abs(x["pnl"]), reverse=True): a row goes after
\* every row whose |pnl| is >= its own.
RECURSIVE InsertByAbsPnl(_, _)
InsertByAbsPnl(row, s) ==
    IF s = <<>> THEN <<row>>
    ELSE IF Abs(Head(s).pnl) >= Abs(row.pnl)
         THEN <<Head(s)>> \o InsertByAbsPnl(row, Tail(s))
         ELSE <<row>> \o s

\* _finalize, lines 260-274.
RECURSIVE _finalize(_)
_finalize(bucket) ==
    IF bucket = <<>> THEN <<>>
    ELSE LET v == bucket[Len(bucket)]
             row == [key |-> v.key, pnl |-> v.pnl, matches |-> v.matches,
                     win_rate |-> [num |-> v.wins, den |-> Max(1, v.wins + v.losses)]]
         IN InsertByAbsPnl(row, _finalize(SubSeq(bucket, 1, Len(bucket) - 1)))

\* performance_from_trades after its call of compute_fifo: the streaks and
\* the breakdowns (the daily and weekly series and the best and worst day,
\* which need calendar dates, are not modelled).
performance_from_trades(real, journal) ==
    LET realized_sorted == SortedByExit(real)
        n == Len(realized_sorted)
    IN [status |-> "ok",
        stats |-> Streaks(realized_sorted),
        breakdowns |->
            [by_symbol |-> _finalize(Grouped(realized_sorted, SymbolKeys(realized_sorted), n)),
             by_strategy |-> _finalize(Grouped(realized_sorted,
                                 BreakdownKeys(realized_sorted, journal, "strategy"), n)),
             by_emotion |-> _finalize(Grouped(realized_sorted,
                                 BreakdownKeys(realized_sorted, journal, "emotion"), n))]]

\* matrix.sort(key=lambda x: x["total_pnl"], reverse=True)
RECURSIVE InsertByTotalPnl(_, _)
InsertByTotalPnl(row, s) ==
    IF s = <<>> THEN <<row>>
    ELSE IF Head(s).total_pnl >= row.total_pnl
         THEN <<Head(s)>> \o InsertByTotalPnl(row, Tail(s))
         ELSE <<row>> \o s

\* Lines 199-219 of trade_analysis_service.py: one row per strategy.
RECURSIVE StrategyRows(_)
StrategyRows(strategy_data) ==
    IF strategy_data = <<>> THEN <<>>
    ELSE LET data == strategy_data[Len(strategy_data)]
             avg_win == IF data.wins > 0 THEN [num |-> data.win_pnl, den |-> data.wins]
                        ELSE [num |-> 0, den |-> 1]
             avg_loss == IF data.losses > 0 THEN [num |-> data.loss_pnl, den |-> data.losses]
                         ELSE [num |-> 0, den |-> 1]
             row == [strategy |-> data.key,
                     total_pnl |-> data.pnl,
                     trades |-> data.matches,
                     wins |-> data.wins,
                     losses |-> data.losses,
                     win_rate |-> IF data.matches > 0
                                  THEN [num |-> data.wins, den |-> data.matches]
                                  ELSE [num |-> 0, den |-> 1],
                     avg_win |-> avg_win,
                     avg_loss |-> avg_loss,
                     profit_factor |->
                         IF avg_loss.num # 0
                         THEN Divide(Abs(avg_win.num) * avg_loss.den,
                                     avg_win.den * Abs(avg_loss.num))
                         ELSE Null]
         IN InsertByTotalPnl(row, StrategyRows(SubSeq(strategy_data, 1, Len(strategy_data) - 1)))

\* calculate_strategy_comparison_matrix after its call of compute_fifo.
calculate_strategy_comparison_matrix(real, journal) ==
    [status |-> "ok",
     strategies |-> StrategyRows(Grouped(real, MatrixKeys(real, journal), Len(real)))]

\* tax_service.py. A trade_time is a number of hours since the start of
\* 1 January of FirstYear; FirstYear and the two years after it have 365
\* days.

HoursPerDay == 24

DaysPerYear == 365

FirstYear == 2025

\* The default arguments of calculate_tax_classification.
DefaultLongTermDays == 365

DefaultShortTermRate == 15

DefaultLongTermRate == 10

\* match.exit_time.date().year
YearOf(time) == FirstYear + (time \div HoursPerDay) \div DaysPerYear

\* Variant: a started day counts as a day.
HoldingDaysRoundedUp(entry_time, exit_time) ==
    (exit_time - entry_time + HoursPerDay - 1) \div HoursPerDay

\* (match.exit_time - match.entry_time).days: the whole days.
HoldingDays(entry_time, exit_time) == (exit_time - entry_time) \div HoursPerDay

\* Variant: every match is of the tax year.
InAnyYear(match, tax_year) == TRUE

\* Line 35: the match is kept when its exit date is of the tax year.
InTaxYear(match, tax_year) == YearOf(match.exit_time) = tax_year

\* Lines 41-52.
MatchData(match) ==
    [symbol |-> match.symbol, qty |-> match.qty,
     entry_time |-> match.entry_time, exit_time |-> match.exit_time,
     entry_price |-> match.entry_price, exit_price |-> match.exit_price,
     pnl |-> match.pnl,
     holding_days |-> HoldingDays(match.entry_time, match.exit_time),
     entry_trade_id |-> match.entry_trade_id,
     exit_trade_id |-> match.exit_trade_id]

\* Lines 32-63: the matches of the year that go to one of the four lists,
\* in the order of realized_matches.
RECURSIVE Classified(_, _, _, _, _)
Classified(ms, tax_year, long_term_days, long_term, gain) ==
    IF ms = <<>> THEN <<>>
    ELSE LET match == Head(ms)
             rest == Classified(Tail(ms), tax_year, long_term_days, long_term, gain)
             is_long_term ==
                 HoldingDays(match.entry_time, match.exit_time) >= long_term_days
         IN IF ~InTaxYear(match, tax_year) THEN rest
            ELSE IF match.pnl > 0
            THEN (IF gain /\ is_long_term = long_term
                  THEN <<MatchData(match)>> \o rest ELSE rest)
            ELSE IF match.pnl < 0
            THEN (IF ~gain /\ is_long_term = long_term
                  THEN <<MatchData(match)>> \o rest ELSE rest)
            ELSE rest

\* Variant: the net amount is taxable whatever its sign.
TaxableGainSigned(net) == net

\* Lines 78-79: max(0, net).
TaxableGain(net) == Max(0, net)

\* Lines 81-82: (taxable_gain * rate) / 100.0, as a fraction.
Tax(taxable_gain, rate) == [num |-> taxable_gain * rate, den |-> 100]

\* Variant: a bucket with a loss or a gain gets a hint.
HarvestingHintEither(type, loss_total, gain_total) ==
    IF loss_total < 0 \/ gain_total > 0
    THEN <<[type |-> type, available_loss |-> Abs(loss_total)]>>
    ELSE <<>>

\* Lines 87-98: the hint of one bucket, if any (could_offset names the
\* bucket's gains and follows from type).
HarvestingHint(type, loss_total, gain_total) ==
    IF loss_total < 0 /\ gain_total > 0
    THEN <<[type |-> type, available_loss |-> Abs(loss_total)]>>
    ELSE <<>>

\* calculate_tax_classification, lines 9-137.
calculate_tax_classification(realized_matches, tax_year, long_term_days, short_term_tax_rate, long_term_tax_rate) ==
    LET short_term_gains == Classified(realized_matches, tax_year, long_term_days, FALSE, TRUE)
        short_term_losses == Classified(realized_matches, tax_year, long_term_days, FALSE, FALSE)
        long_term_gains == Classified(realized_matches, tax_year, long_term_days, TRUE, TRUE)
        long_term_losses == Classified(realized_matches, tax_year, long_term_days, TRUE, FALSE)
        short_term_gain_total == SumPnl(short_term_gains)
        short_term_loss_total == SumPnl(short_term_losses)
        long_term_gain_total == SumPnl(long_term_gains)
        long_term_loss_total == SumPnl(long_term_losses)
        net_short_term == short_term_gain_total + short_term_loss_total
        net_long_term == long_term_gain_total + long_term_loss_total
        net_total == net_short_term + net_long_term
        short_term_taxable_gain == TaxableGain(net_short_term)
        long_term_taxable_gain == TaxableGain(net_long_term)
        short_term_tax == Tax(short_term_taxable_gain, short_term_tax_rate)
        long_term_tax == Tax(long_term_taxable_gain, long_term_tax_rate)
        total_tax == [num |-> short_term_tax.num + long_term_tax.num, den |-> 100]
    IN [status |-> "ok",
        tax_year |-> tax_year,
        short_term |->
            [gains |-> short_term_gains, losses |-> short_term_losses,
             total_gains |-> short_term_gain_total,
             total_losses |-> short_term_loss_total,
             net |-> net_short_term,
             count |-> Len(short_term_gains) + Len(short_term_losses)],
        long_term |->
            [gains |-> long_term_gains, losses |-> long_term_losses,
             total_gains |-> long_term_gain_total,
             total_losses |-> long_term_loss_total,
             net |-> net_long_term,
             count |-> Len(long_term_gains) + Len(long_term_losses)],
        summary |->
            [total_realized_pnl |-> net_total,
             net_short_term |-> net_short_term,
             net_long_term |-> net_long_term,
             short_term_taxable_gain |-> short_term_taxable_gain,
             long_term_taxable_gain |-> long_term_taxable_gain,
             short_term_tax |-> short_term_tax,
             long_term_tax |-> long_term_tax,
             total_tax |-> total_tax],
        tax_rates |-> [short_term_rate |-> short_term_tax_rate,
                       long_term_rate |-> long_term_tax_rate],
        tax_loss_harvesting |->
            HarvestingHint("short_term", short_term_loss_total, short_term_gain_total)
            \o HarvestingHint("long_term", long_term_loss_total, long_term_gain_total),
        notes |-> [long_term_threshold_days |-> long_term_days]]

\* overview_from_trades after its call of compute_fifo (lines 30-154): the
\* valuation, the open positions, the missing marks and the strict check.
overview_from_trades(real, pos, last_trade_mark, keys, marks, strict) ==
    LET marks_norm == _normalize_marks(marks)
        effective_mark == EffectiveMark(last_trade_mark, marks_norm)
        unrealized_by_symbol == compute_unrealized(pos, effective_mark)
        realized_pnl == SumPnl(real)
        unrealized_pnl == SumValues(unrealized_by_symbol, DOMAIN unrealized_by_symbol)
        open_positions == OpenPositions(keys, pos, effective_mark, unrealized_by_symbol)
        missing_marks == MissingMarks(open_positions, marks_norm)
        realized_sorted == SortedByExit(real)
        drawdown == Drawdown(EquityPoints(realized_sorted, 0))
        advanced_metrics == AdvancedMetrics(real, realized_sorted, realized_pnl, drawdown)
    IN IF advanced_metrics.sharpe_ratio.kind = "raise"
       THEN [status |-> "raise", error |-> advanced_metrics.sharpe_ratio.error]
       ELSE IF advanced_metrics.sortino_ratio.kind = "raise"
       THEN [status |-> "raise", error |-> advanced_metrics.sortino_ratio.error]
       ELSE IF strict /\ missing_marks # <<>>
       THEN [status |-> "error", missing |-> missing_marks]
       ELSE [status |-> "ok",
             realized_pnl |-> realized_pnl,
             unrealized_pnl |-> unrealized_pnl,
             total_pnl |-> realized_pnl + unrealized_pnl,
             win_rate |-> WinRate(Wins(real), Losses(real)),
             avg_win |-> Average(Pnls(Wins(real))),
             avg_loss |-> Average(Pnls(Losses(real))),
             drawdown |-> drawdown,
             risk_reward_ratio |-> RiskReward(Pnls(Wins(real)), Pnls(Losses(real))),
             advanced_metrics |-> advanced_metrics,
             open_positions |-> open_positions,
             missing_marks |-> missing_marks]

\* performance_comparison_service.py, _empty_analytics (lines 76-95): the
\* analytics of a period without trades.
_empty_analytics ==
    [realized_pnl |-> 0,
     unrealized_pnl |-> 0,
     total_pnl |-> 0,
     win_rate |-> [num |-> 0, den |-> 1],
     avg_win |-> [num |-> 0, den |-> 1],
     avg_loss |-> [num |-> 0, den |-> 1],
     drawdown |-> 0,
     risk_reward_ratio |-> Null,
     advanced_metrics |->
        [sharpe_ratio |-> Null,
         sortino_ratio |-> Null,
         calmar_ratio |-> Null,
         profit_factor |-> Null,
         expectancy |-> Null,
         avg_holding_period_days |-> Null]]

---------------------------------------------------------------------------
\* The state machine.

Sides == {"BUY", "SELL"}

\* What a stored trade is made of besides its id and its time; quantity and
\* price are positive and fees non-negative, as TradeBase validates them.
TradeFields ==
    [symbol : RawSymbols, side : Sides, quantity : Quantities, terms : TradeTerms]

\* The rows of the account: ids are row numbers.
Rows(s) ==
    [k \in 1..Len(s) |->
        [id |-> k, symbol |-> s[k].symbol, side |-> s[k].side,
         quantity |-> s[k].quantity, price |-> s[k].terms.price,
         trade_time |-> TradeTime(k), fees |-> s[k].terms.fees]]

TradeLists(n) == {Rows(s) : s \in UNION {[1..k -> TradeFields] : k \in 0..n}}

\* The marks of a request: up to two entries with distinct keys, in order.
MarkEntries == [key : MarkKeys, value : MarkValues]

MarkMaps ==
    {<<>>} \cup {<<e>> : e \in MarkEntries}
    \cup {<<p[1], p[2]>> : p \in {q \in MarkEntries \X MarkEntries : q[1].key # q[2].key}}

NoRequest == [marks |-> <<>>, strict |-> FALSE]

NoSnapshot == [status |-> "none"]

InitWith(lists) ==
    /\ trades \in lists
    /\ pc = "idle"
    /\ trades_sorted = <<>>
    /\ idx = 0
    /\ realized = <<>>
    /\ positions = EmptyDict
    /\ mark = EmptyDict
    /\ request = NoRequest
    /\ snapshot = NoSnapshot
    /\ previous = <<>>

Init == InitWith(TradeLists(MaxTrades))

\* Variant: realized, positions and mark outlive the call.
compute_fifo_start_keeps ==
    /\ pc = "idle"
    /\ trades_sorted' = SortedByTime(trades)
    /\ idx' = 0
    /\ pc' = "loop"
    /\ UNCHANGED <<trades, realized, positions, mark, request, snapshot, previous>>

\* compute_fifo, lines 65-68: sort, fresh realized / positions / mark.
compute_fifo_start ==
    /\ pc = "idle"
    /\ trades_sorted' = SortedByTime(trades)
    /\ idx' = 0
    /\ realized' = <<>>
    /\ positions' = EmptyDict
    /\ mark' = EmptyDict
    /\ pc' = "loop"
    /\ UNCHANGED <<trades, request, snapshot, previous>>

\* compute_fifo, lines 70-144: one iteration of `for t in trades_sorted`.
compute_fifo_trade ==
    /\ pc = "loop"
    /\ idx < Len(trades_sorted)
    /\ LET t == trades_sorted[idx + 1]
           sym == NormSymbol(t.symbol)
           pos == SetDefault(positions, sym)
           e == TradeEffect(pos[sym], sym, t)
       IN /\ positions' = [pos EXCEPT ![sym] = e.position]
          /\ realized' = realized \o e.matches
          /\ mark' = DictSet(mark, sym, t.price)
    /\ idx' = idx + 1
    /\ UNCHANGED <<trades, pc, trades_sorted, request, snapshot, previous>>

\* compute_fifo, line 146: return realized, positions, mark.
compute_fifo_return ==
    /\ pc = "loop"
    /\ idx = Len(trades_sorted)
    /\ pc' = "returned"
    /\ UNCHANGED <<trades, trades_sorted, idx, realized, positions, mark,
                   request, snapshot, previous>>

\* Variant: effective_mark is last_trade_mark itself, not a copy of it, so
\* update() writes the caller's marks into the map compute_fifo returned.
overview_with_marks_aliased ==
    /\ pc = "returned"
    /\ \E marks \in MarkMaps, strict \in BOOLEAN :
         /\ request' = [marks |-> marks, strict |-> strict]
         /\ snapshot' = overview_from_trades(realized, positions, mark,
                                             KeyOrder(trades_sorted), marks, strict)
         /\ mark' = EffectiveMark(mark, _normalize_marks(marks))
    /\ pc' = "done"
    /\ UNCHANGED <<trades, trades_sorted, idx, realized, positions, previous>>

\* POST /analytics/overview: overview_from_trades(trades, marks, strict) from
\* the return of its compute_fifo call to its own return or ValueError.
overview_with_marks ==
    /\ pc = "returned"
    /\ \E marks \in MarkMaps, strict \in BOOLEAN :
         /\ request' = [marks |-> marks, strict |-> strict]
         /\ snapshot' = overview_from_trades(realized, positions, mark,
                                             KeyOrder(trades_sorted), marks, strict)
    /\ pc' = "done"
    /\ UNCHANGED <<trades, trades_sorted, idx, realized, positions, mark, previous>>

\* GET /analytics/overview: overview_from_trades(trades), no marks, not strict.
overview ==
    /\ pc = "returned"
    /\ request' = NoRequest
    /\ snapshot' = overview_from_trades(realized, positions, mark,
                                        KeyOrder(trades_sorted), <<>>, FALSE)
    /\ pc' = "done"
    /\ UNCHANGED <<trades, trades_sorted, idx, realized, positions, mark, previous>>

\* The response is sent and the next request for the same account arrives.
\* Nothing of the finished request is kept by the program; the model keeps
\* what its compute_fifo returned, to compare the next run with.
next_request ==
    /\ pc = "done"
    /\ previous' = <<realized, positions, mark>>
    /\ request' = NoRequest
    /\ snapshot' = NoSnapshot
    /\ pc' = "idle"
    /\ UNCHANGED <<trades, trades_sorted, idx, realized, positions, mark>>

\* One call of compute_fifo on any list of valid trades.
Next ==
    \/ compute_fifo_start
    \/ compute_fifo_trade
    \/ compute_fifo_return

Spec == Init /\ [][Next]_vars

\* One POST /analytics/overview request on any short account.
InitOverview == InitWith(TradeLists(MaxOverviewTrades))

NextOverview ==
    \/ compute_fifo_start
    \/ compute_fifo_trade
    \/ compute_fifo_return
    \/ overview_with_marks

SpecOverview == InitOverview /\ [][NextOverview]_vars

\* GET /analytics/overview requests, one after the other, on the same account.
NextRerun ==
    \/ compute_fifo_start
    \/ compute_fifo_trade
    \/ compute_fifo_return
    \/ overview
    \/ next_request

SpecRerun == InitOverview /\ [][NextRerun]_vars

\* One GET /analytics/overview request on any account.
NextGetOverview ==
    \/ compute_fifo_start
    \/ compute_fifo_trade
    \/ compute_fifo_return
    \/ overview

SpecGetOverview == Init /\ [][NextGetOverview]_vars

\* GET /analytics/overview on an account of round trips in one symbol: a
\* position of one share is opened at 100 and closed by the next trade, so
\* the account has one match per round trip, with a pnl of either sign or 0.
MaxRoundTrips == 3

\* The terms a round trip is closed at.
ExitTerms == TradeTerms \cup {[price |-> 60, fees |-> 0]}

RoundTrips == [side : Sides, exit : ExitTerms]

RoundTripRows(s) ==
    [k \in 1..(2 * Len(s)) |->
        LET trip == s[(k + 1) \div 2]
            other == IF trip.side = "BUY" THEN "SELL" ELSE "BUY"
        IN IF k % 2 = 1
           THEN [id |-> k, symbol |-> <<"B">>, side |-> trip.side, quantity |-> 1,
                 price |-> 100, trade_time |-> k, fees |-> 0]
           ELSE [id |-> k, symbol |-> <<"B">>, side |-> other, quantity |-> 1,
                 price |-> trip.exit.price, trade_time |-> k,
                 fees |-> trip.exit.fees]]

RoundTripLists(n) ==
    {RoundTripRows(s) : s \in UNION {[1..k -> RoundTrips] : k \in 0..n}}

InitRoundTrips == InitWith(RoundTripLists(MaxRoundTrips))

SpecRoundTrips == InitRoundTrips /\ [][NextGetOverview]_vars

\* GET /analytics/performance and GET /analytics/strategy-matrix on an
\* account of round trips, with the journal tags of the account: the latest
\* journal entry of some of the first trades, its strategy and emotion a
\* word, a word with a trailing blank, or empty.
TaggedIds == {1, 2, 4}

JournalTags ==
    {[strategy |-> <<"m">>, emotion |-> <<"c">>],
     [strategy |-> <<"r", " ">>, emotion |-> <<"f">>],
     [strategy |-> <<>>, emotion |-> <<>>]}

Journals == UNION {[ids -> JournalTags] : ids \in SUBSET TaggedIds}

performance ==
    /\ pc = "returned"
    /\ \E journal \in Journals :
         /\ request' = [fn |-> "performance", journal |-> journal]
         /\ snapshot' = performance_from_trades(realized, journal)
    /\ pc' = "done"
    /\ UNCHANGED <<trades, trades_sorted, idx, realized, positions, mark, previous>>

strategy_comparison_matrix ==
    /\ pc = "returned"
    /\ \E journal \in Journals :
         /\ request' = [fn |-> "strategy_comparison_matrix", journal |-> journal]
         /\ snapshot' = calculate_strategy_comparison_matrix(realized, journal)
    /\ pc' = "done"
    /\ UNCHANGED <<trades, trades_sorted, idx, realized, positions, mark, previous>>

NextPerformance ==
    \/ compute_fifo_start
    \/ compute_fifo_trade
    \/ compute_fifo_return
    \/ performance
    \/ strategy_comparison_matrix

SpecPerformance == InitRoundTrips /\ [][NextPerformance]_vars

\* GET and POST /analytics/tax/{tax_year} on an account of round trips
\* whose trades are dated: each buys one share at 100 and sells it, held
\* for half a day, for an hour less than 365 days (sold in the first year
\* or in the second), or for 365 days to the hour.
MaxTaxTrips == 3

Instant(day, hour) == day * HoursPerDay + hour

TaxPeriods ==
    {[entry |-> Instant(0, 0), exit |-> Instant(0, 12)],
     [entry |-> Instant(0, 0), exit |-> Instant(DefaultLongTermDays - 1, 23)],
     [entry |-> Instant(0, 12), exit |-> Instant(DefaultLongTermDays, 11)],
     [entry |-> Instant(0, 12), exit |-> Instant(DefaultLongTermDays, 12)]}

TaxTrips == [period : TaxPeriods, exit : ExitTerms]

TaxTripRows(s) ==
    [k \in 1..(2 * Len(s)) |->
        LET trip == s[(k + 1) \div 2]
        IN IF k % 2 = 1
           THEN [id |-> k, symbol |-> <<"B">>, side |-> "BUY", quantity |-> 1,
                 price |-> 100, trade_time |-> trip.period.entry, fees |-> 0]
           ELSE [id |-> k, symbol |-> <<"B">>, side |-> "SELL", quantity |-> 1,
                 price |-> trip.exit.price, trade_time |-> trip.period.exit,
                 fees |-> trip.exit.fees]]

TaxTripLists(n) ==
    {TaxTripRows(s) : s \in UNION {[1..k -> TaxTrips] : k \in 0..n}}

TaxYears == {FirstYear, FirstYear + 1}

\* The rates of a request: the defaults, or rates the payload gives.
TaxRates ==
    {[short_term |-> DefaultShortTermRate, long_term |-> DefaultLongTermRate],
     [short_term |-> 0, long_term |-> 100]}

tax_report ==
    /\ pc = "returned"
    /\ \E tax_year \in TaxYears, rates \in TaxRates :
         /\ request' = [fn |-> "tax_report", tax_year |-> tax_year, rates |-> rates]
         /\ snapshot' = calculate_tax_classification(realized, tax_year,
                            DefaultLongTermDays, rates.short_term, rates.long_term)
    /\ pc' = "done"
    /\ UNCHANGED <<trades, trades_sorted, idx, realized, positions, mark, previous>>

InitTax == InitWith(TaxTripLists(MaxTaxTrips))

NextTax ==
    \/ compute_fifo_start
    \/ compute_fifo_trade
    \/ compute_fifo_return
    \/ tax_report

SpecTax == InitTax /\ [][NextTax]_vars

\* compute_fifo called on one set of trades handed over in different orders:
\* trades of one symbol, each with a price and an id of its own, at instants
\* that are all distinct or that fall together in pairs.
MaxPermutedTrades == 3

\* The orders n things can be handed over in.
Orders(n) == {p \in [1..n -> 1..n] : \A j, k \in 1..n : p[j] = p[k] => j = k}

\* The instants of the trades as first handed over, in time order: one
\* instant per trade, or one per pair of trades.
PermutedTimes(n) == {[k \in 1..n |-> k], [k \in 1..n |-> (k + 1) \div 2]}

PermutedFields == [side : Sides, quantity : Quantities]

PermutedRows(s, time) ==
    [k \in 1..Len(s) |->
        [id |-> k, symbol |-> <<"B">>, side |-> s[k].side,
         quantity |-> s[k].quantity, price |-> 100 + 10 * k,
         trade_time |-> time[k], fees |-> k % 2]]

PermutedLists(n) ==
    UNION {{PermutedRows(s, time) : s \in [1..k -> PermutedFields],
                                    time \in PermutedTimes(k)} : k \in 0..n}

\* The caller hands the same trades to compute_fifo again, in another order.
\* The model keeps what the call before returned, to compare with.
reorder ==
    /\ pc = "returned"
    /\ \E p \in Orders(Len(trades)) :
          trades' = [k \in 1..Len(trades) |-> trades[p[k]]]
    /\ previous' = <<realized, positions, mark>>
    /\ pc' = "idle"
    /\ UNCHANGED <<trades_sorted, idx, realized, positions, mark, request, snapshot>>

InitPermuted == InitWith(PermutedLists(MaxPermutedTrades))

NextPermuted ==
    \/ compute_fifo_start
    \/ compute_fifo_trade
    \/ compute_fifo_return
    \/ reorder

SpecPermuted == InitPermuted /\ [][NextPermuted]_vars

\* The metric functions of utils/calculations.py called on their own, with
\* any arguments: return series with equal, negative and very large values,
\* a drawdown or a gross loss of either sign.
MaxReturns == 3

\* A return so large that its square is no float.
HugeReturn == 3 * SqrtFloatMax

ReturnValues == {-HugeReturn, -2, 0, 1, HugeReturn}

ReturnSeries == UNION {[1..k -> ReturnValues] : k \in 0..MaxReturns}

Amounts == {-2, 0, 1}

PnlLists == {<<>>, <<1>>, <<-2>>, <<1, 1>>, <<-2, -2>>}

Rates == {[num |-> 0, den |-> 1], [num |-> 1, den |-> 2], [num |-> 1, den |-> 1]}

call_sharpe_ratio ==
    /\ pc = "idle"
    /\ \E returns \in ReturnSeries :
         /\ request' = [fn |-> "sharpe_ratio", args |-> <<returns>>]
         /\ snapshot' = sharpe_ratio(returns, 0)
    /\ pc' = "done"
    /\ UNCHANGED <<trades, trades_sorted, idx, realized, positions, mark, previous>>

call_sortino_ratio ==
    /\ pc = "idle"
    /\ \E returns \in ReturnSeries :
         /\ request' = [fn |-> "sortino_ratio", args |-> <<returns>>]
         /\ snapshot' = sortino_ratio(returns, 0)
    /\ pc' = "done"
    /\ UNCHANGED <<trades, trades_sorted, idx, realized, positions, mark, previous>>

call_calmar_ratio ==
    /\ pc = "idle"
    /\ \E total_return \in Amounts, max_dd \in Amounts :
         /\ request' = [fn |-> "calmar_ratio", args |-> <<total_return, max_dd>>]
         /\ snapshot' = calmar_ratio(total_return, max_dd)
    /\ pc' = "done"
    /\ UNCHANGED <<trades, trades_sorted, idx, realized, positions, mark, previous>>

call_profit_factor ==
    /\ pc = "idle"
    /\ \E gross_profit \in Amounts, gross_loss \in Amounts :
         /\ request' = [fn |-> "profit_factor", args |-> <<gross_profit, gross_loss>>]
         /\ snapshot' = profit_factor(gross_profit, gross_loss)
    /\ pc' = "done"
    /\ UNCHANGED <<trades, trades_sorted, idx, realized, positions, mark, previous>>

call_expectancy ==
    /\ pc = "idle"
    /\ \E wins \in PnlLists, losses \in PnlLists, win_rate \in Rates :
         /\ request' = [fn |-> "expectancy", args |-> <<wins, losses, win_rate>>]
         /\ snapshot' = expectancy(wins, losses, win_rate)
    /\ pc' = "done"
    /\ UNCHANGED <<trades, trades_sorted, idx, realized, positions, mark, previous>>

InitCalculations == InitWith({<<>>})

NextCalculations ==
    \/ call_sharpe_ratio
    \/ call_sortino_ratio
    \/ call_calmar_ratio
    \/ call_profit_factor
    \/ call_expectancy

SpecCalculations == InitCalculations /\ [][NextCalculations]_vars

\* compute_unrealized called on the positions compute_fifo returned, with
\* any mark map: a price for any of the symbols, or for none.
DirectMarkValues == {90, 110}

DirectMarks ==
    UNION {[S -> DirectMarkValues] : S \in SUBSET {NormSymbol(r) : r \in RawSymbols}}

unrealized_valuation ==
    /\ pc = "returned"
    /\ \E mk \in DirectMarks :
         snapshot' = [status |-> "valued", mark |-> mk,
                      unrealized_by_symbol |-> compute_unrealized(positions, mk)]
    /\ pc' = "done"
    /\ UNCHANGED <<trades, trades_sorted, idx, realized, positions, mark,
                   request, previous>>

NextUnrealized ==
    \/ compute_fifo_start
    \/ compute_fifo_trade
    \/ compute_fifo_return
    \/ unrealized_valuation

SpecUnrealized == InitOverview /\ [][NextUnrealized]_vars

\* compute_fifo on the rows a broker import can leave in the account:
\* ingest_trades inserts what the broker's payload parses to, so a row may
\* have quantity 0, and rows carry any trade_time in any input order.
MaxIngestedTrades == 2

IngestedQuantities == {0} \cup Quantities

TradeTimes == {1, 2}

IngestedFields ==
    [symbol : RawSymbols, side : Sides, quantity : IngestedQuantities,
     terms : TradeTerms, trade_time : TradeTimes]

IngestedRows(s) ==
    [k \in 1..Len(s) |->
        [id |-> k, symbol |-> s[k].symbol, side |-> s[k].side,
         quantity |-> s[k].quantity, price |-> s[k].terms.price,
         trade_time |-> s[k].trade_time, fees |-> s[k].terms.fees]]

IngestedLists(n) ==
    {IngestedRows(s) : s \in UNION {[1..k -> IngestedFields] : k \in 0..n}}

InitIngested == InitWith(IngestedLists(MaxIngestedTrades))

SpecIngested == InitIngested /\ [][Next]_vars

\* compute_fifo on trades whose symbols are written in several ways: "a ",
\* "A" and " a" are one symbol, "B" another.
MaxVariantTrades == 2

VariantSymbols == {<<"a", " ">>, <<"A">>, <<" ", "a">>, <<"B">>}

VariantFields ==
    [symbol : VariantSymbols, side : Sides, quantity : Quantities, terms : TradeTerms]

VariantLists(n) == {Rows(s) : s \in UNION {[1..k -> VariantFields] : k \in 0..n}}

InitVariants == InitWith(VariantLists(MaxVariantTrades))

SpecVariants == InitVariants /\ [][Next]_vars

---------------------------------------------------------------------------
\* The operations that store a trade (api/routes/trades.py, csv_importer.py,
\* trade_ingest.py).  trades is the account's table, in insertion order;
\* snapshot holds the response of the last storing operation.

\* Most rows in the account's table.
MaxStoredTrades == 2

\* What a client, a CSV file or a broker's payload can ask to store.
PayloadSides == Sides \cup {"HOLD"}

PayloadQuantities == {-1, 0, 1}

PayloadPrices == {0, 100}

Payloads ==
    [symbol : {<<"b">>}, side : PayloadSides, quantity : PayloadQuantities,
     price : PayloadPrices, trade_time : TradeTimes, fees : {0}]

\* The fields a PUT can set.
UpdateFields == {"side", "quantity", "price"}

\* TradeBase / TradeUpdate: side is BUY or SELL, quantity > 0, price > 0.
FieldValid(f, p) ==
    CASE f = "side" -> p.side \in Sides
      [] f = "quantity" -> p.quantity > 0
      [] f = "price" -> p.price > 0

\* INSERT INTO trades ... with a fresh id.
InsertRow(table, p, sym) ==
    Append(table,
           [id |-> Len(table) + 1, symbol |-> sym, side |-> p.side,
            quantity |-> p.quantity, price |-> p.price,
            trade_time |-> p.trade_time, fees |-> p.fees])

\* is_duplicate_trade / _is_duplicate: same upper(symbol), side, quantity,
\* price and trade_time as a stored row.
IsDuplicate(table, p) ==
    \E k \in 1..Len(table) :
        /\ Upper(table[k].symbol) = Upper(p.symbol)
        /\ table[k].side = p.side
        /\ table[k].quantity = p.quantity
        /\ table[k].price = p.price
        /\ table[k].trade_time = p.trade_time

Response(status) == [status |-> status]

\* POST /trades: the payload is a TradeCreate, or the request ends in 422.
create_trade ==
    /\ pc = "idle"
    /\ Len(trades) < MaxStoredTrades
    /\ \E p \in Payloads :
         IF \A f \in UpdateFields : FieldValid(f, p)
         THEN /\ trades' = InsertRow(trades, p, Upper(p.symbol))
              /\ snapshot' = Response("201")
         ELSE /\ trades' = trades
              /\ snapshot' = Response("422")
    /\ UNCHANGED <<pc, trades_sorted, idx, realized, positions, mark, request, previous>>

\* PUT /trades/{trade_id}: the fields that are set are validated as a
\* TradeUpdate and written to the row.
update_trade ==
    /\ pc = "idle"
    /\ \E id \in 1..MaxStoredTrades, set \in SUBSET UpdateFields, p \in Payloads :
         IF \E f \in set : ~FieldValid(f, p)
         THEN /\ trades' = trades
              /\ snapshot' = Response("422")
         ELSE IF id > Len(trades)
         THEN /\ trades' = trades
              /\ snapshot' = Response("404")
         ELSE /\ trades' =
                   [trades EXCEPT ![id] =
                       [@ EXCEPT !.side = IF "side" \in set THEN p.side ELSE @,
                                 !.quantity = IF "quantity" \in set THEN p.quantity ELSE @,
                                 !.price = IF "price" \in set THEN p.price ELSE @]]
              /\ snapshot' = Response("200")
    /\ UNCHANGED <<pc, trades_sorted, idx, realized, positions, mark, request, previous>>

\* POST /trades/import/csv with a file of one row: the row is parsed
\* (_parse_side raises on an unknown side), checked (line 128), looked up as
\* a duplicate and inserted.
import_trades_csv ==
    /\ pc = "idle"
    /\ Len(trades) < MaxStoredTrades
    /\ \E p \in Payloads :
         IF ~FieldValid("side", p) \/ p.quantity <= 0 \/ p.price <= 0
         THEN /\ trades' = trades
              /\ snapshot' = Response("invalid_row")
         ELSE IF IsDuplicate(trades, p)
         THEN /\ trades' = trades
              /\ snapshot' = Response("duplicate_ignored")
         ELSE /\ trades' = InsertRow(trades, p, Upper(Strip(p.symbol)))
              /\ snapshot' = Response("inserted")
    /\ UNCHANGED <<pc, trades_sorted, idx, realized, positions, mark, request, previous>>

\* POST /brokers/{broker}/import with a payload of one row: fetch_trades
\* parses it (_parse_side raises on an unknown side, which fails the fetch),
\* ingest_trades looks it up as a duplicate and inserts it.
import_from_broker ==
    /\ pc = "idle"
    /\ Len(trades) < MaxStoredTrades
    /\ \E p \in Payloads :
         IF ~FieldValid("side", p)
         THEN /\ trades' = trades
              /\ snapshot' = Response("400")
         ELSE IF IsDuplicate(trades, p)
         THEN /\ trades' = trades
              /\ snapshot' = Response("duplicate_ignored")
         ELSE /\ trades' = InsertRow(trades, p, Upper(Strip(p.symbol)))
              /\ snapshot' = Response("inserted")
    /\ UNCHANGED <<pc, trades_sorted, idx, realized, positions, mark, request, previous>>

InitStore == InitWith({<<>>})

\* Any storing operations on an account, then compute_fifo on its rows.
NextStore ==
    \/ create_trade
    \/ update_trade
    \/ import_trades_csv
    \/ import_from_broker
    \/ compute_fifo_start
    \/ compute_fifo_trade
    \/ compute_fifo_return

SpecStore == InitStore /\ [][NextStore]_vars

---------------------------------------------------------------------------
\* What the properties below speak about.

Symbols == {NormSymbol(r) : r \in RawSymbols}

RECURSIVE SumFn(_, _)
SumFn(f, S) ==
    IF S = {} THEN 0
    ELSE LET x == CHOOSE y \in S : TRUE IN f[x] + SumFn(f, S \ {x})

\* The stored trade of an id.
TradeById(id) == CHOOSE t \in {trades[k] : k \in 1..Len(trades)} : t.id = id

\* The place of a trade in processing order.
Pos(id) == CHOOSE i \in 1..Len(trades_sorted) : trades_sorted[i].id = id

LotsOf(sym, side) == IF sym \in DOMAIN positions THEN positions[sym][side] ELSE <<>>

MatchedQty(sym) ==
    SumFn([k \in 1..Len(realized) |->
              IF realized[k].symbol = sym THEN realized[k].qty ELSE 0],
          1..Len(realized))

OpenQtyOf(sym, side) ==
    SumFn([k \in 1..Len(LotsOf(sym, side)) |-> LotsOf(sym, side)[k].qty],
          1..Len(LotsOf(sym, side)))

OpenQty(sym) == OpenQtyOf(sym, "long") + OpenQtyOf(sym, "short")

\* Quantity of the trades of a symbol processed so far.
TradedQty(sym) ==
    SumFn([k \in 1..idx |->
              IF NormSymbol(trades_sorted[k].symbol) = sym
              THEN trades_sorted[k].quantity ELSE 0],
          1..idx)

\* A step that processes one trade, the trade, its symbol, the queue it
\* closes lots of, and the matches it emits.
TradeStep == pc = "loop" /\ pc' = "loop" /\ idx' = idx + 1

StepTrade == trades_sorted[idx + 1]

StepSym == NormSymbol(StepTrade.symbol)

ClosedSide == IF StepTrade.side = "BUY" THEN "short" ELSE "long"

OwnSide == IF StepTrade.side = "BUY" THEN "long" ELSE "short"

StepMatches == SubSeq(realized', Len(realized) + 1, Len(realized'))

\* Price difference of a match in the direction of its side.
MatchGain(m) ==
    IF m.side_closed = "LONG" THEN m.exit_price - m.entry_price
    ELSE m.entry_price - m.exit_price

---------------------------------------------------------------------------
\* C1: after any prefix of the trades, no symbol has both a long lot and a
\* short lot open: a trade opens a lot on its own side only once the
\* opposite queue of its symbol is empty.
C1_NeverLongAndShort ==
    \A sym \in DOMAIN positions :
        positions[sym].long = <<>> \/ positions[sym].short = <<>>

\* A SELL has closed a long lot of a symbol and left a short lot of it open.
C1_Witness ==
    \E sym \in DOMAIN positions :
        /\ positions[sym].short # <<>>
        /\ \E k \in 1..Len(realized) :
             /\ realized[k].symbol = sym
             /\ realized[k].side_closed = "LONG"
             /\ realized[k].exit_trade_id = positions[sym].short[1].trade_id

\* C2 as claimed: once every trade is processed, matched quantity plus open
\* quantity of a symbol equals the quantity of all trades of the symbol.
C2_MatchedOnce ==
    pc = "returned" =>
        \A sym \in Symbols : MatchedQty(sym) + OpenQty(sym) = TradedQty(sym)

\* C2 amended: a match takes its quantity from its entry trade and from its
\* exit trade, so twice the matched quantity plus the open quantity of a
\* symbol equals the quantity of the trades of the symbol processed so far.
C2_QuantityConservation ==
    \A sym \in Symbols : 2 * MatchedQty(sym) + OpenQty(sym) = TradedQty(sym)

\* All trades are processed, and a symbol has matched and open quantity.
C2_Witness ==
    /\ pc = "returned"
    /\ \E sym \in Symbols : MatchedQty(sym) > 0 /\ OpenQty(sym) > 0

\* C3: a trade closes the open lots of the opposite side of its symbol
\* oldest first: each match is against a lot of that queue, and every lot of
\* the queue that was opened earlier than the matched lot has been consumed
\* in full by the earlier matches of the same trade.
C3_FifoOrder ==
    [][TradeStep =>
        LET queue == LotsOf(StepSym, ClosedSide)
            new == StepMatches
            Taken(id, k) ==
                SumFn([i \in 1..(k - 1) |->
                          IF new[i].entry_trade_id = id THEN new[i].qty ELSE 0],
                      1..(k - 1))
        IN \A k \in 1..Len(new) :
             /\ \E j \in 1..Len(queue) : queue[j].trade_id = new[k].entry_trade_id
             /\ \A j \in 1..Len(queue) :
                  Pos(queue[j].trade_id) < Pos(new[k].entry_trade_id)
                      => Taken(queue[j].trade_id, k) = queue[j].qty]_vars

\* Two lots, then a trade that closes the first in full and the second in
\* part: two matches of one exit trade, the rest of the second lot open.
C3_Witness ==
    /\ Len(realized) = 2
    /\ realized[1].exit_trade_id = realized[2].exit_trade_id
    /\ Pos(realized[1].entry_trade_id) < Pos(realized[2].entry_trade_id)
    /\ realized[1].qty = TradeById(realized[1].entry_trade_id).quantity
    /\ \E side \in {"long", "short"} :
         /\ Len(LotsOf(realized[2].symbol, side)) = 1
         /\ LotsOf(realized[2].symbol, side)[1].trade_id = realized[2].entry_trade_id
         /\ LotsOf(realized[2].symbol, side)[1].qty >= 1

\* C4: a match of m shares has pnl = gain * m - (entry fee per share + exit
\* fee per share) * m, gain being exit price - entry price for a closed long
\* and entry price - exit price for a closed short, a fee per share being the
\* fees of the originating trade over its whole quantity, and m the smaller
\* of what is left of the incoming trade and of the head lot.  Stated
\* without division: pnl / Scale * qe * qx =
\*   m * (gain * qe * qx - (fees_e * qx + fees_x * qe)).
C4_MatchPnl ==
    [][TradeStep =>
        LET queue == LotsOf(StepSym, ClosedSide)
            new == StepMatches
            Before(k) == SumFn([i \in 1..(k - 1) |-> new[i].qty], 1..(k - 1))
        IN \A k \in 1..Len(new) :
             LET m == new[k]
                 e == TradeById(m.entry_trade_id)
                 x == TradeById(m.exit_trade_id)
             IN /\ x = StepTrade
                /\ m.side_closed = (IF x.side = "SELL" THEN "LONG" ELSE "SHORT")
                /\ m.entry_price = e.price /\ m.exit_price = x.price
                /\ m.qty = Min(x.quantity - Before(k), queue[k].qty)
                /\ m.pnl * e.quantity * x.quantity =
                     Scale * m.qty * (MatchGain(m) * e.quantity * x.quantity
                                      - (e.fees * x.quantity + x.fees * e.quantity))]_vars

\* A closed long and a closed short, both with fees and a price difference.
C4_Witness ==
    /\ \E k \in 1..Len(realized) :
         /\ realized[k].side_closed = "LONG"
         /\ realized[k].entry_price # realized[k].exit_price
         /\ TradeById(realized[k].entry_trade_id).fees
            # TradeById(realized[k].exit_trade_id).fees
    /\ \E k \in 1..Len(realized) :
         /\ realized[k].side_closed = "SHORT"
         /\ realized[k].entry_price # realized[k].exit_price

\* C5: a trade whose quantity exceeds the open quantity of the opposite side
\* of its symbol closes every lot of that side, one match per lot, and opens
\* exactly one lot on its own side: the excess, at the trade's price, fee
\* per share (fees over whole quantity), id and time.
C5_Reversal ==
    [][(TradeStep /\ StepTrade.quantity > OpenQtyOf(StepSym, ClosedSide)) =>
        LET t == StepTrade
            new == StepMatches
            closed == LotsOf(StepSym, ClosedSide)
            own == LotsOf(StepSym, OwnSide)
            own2 == positions'[StepSym][OwnSide]
        IN /\ positions'[StepSym][ClosedSide] = <<>>
           /\ Len(new) = Len(closed)
           /\ \A k \in 1..Len(new) :
                /\ new[k].side_closed = (IF t.side = "SELL" THEN "LONG" ELSE "SHORT")
                /\ new[k].entry_trade_id = closed[k].trade_id
                /\ new[k].qty = closed[k].qty
           /\ Len(own2) = Len(own) + 1
           /\ SubSeq(own2, 1, Len(own)) = own
           /\ own2[Len(own2)].qty = t.quantity - OpenQtyOf(StepSym, ClosedSide)
           /\ own2[Len(own2)].price = t.price
           /\ own2[Len(own2)].trade_id = t.id
           /\ own2[Len(own2)].time = t.trade_time
           /\ own2[Len(own2)].fee_per_share * t.quantity = t.fees * Scale]_vars

\* A lot that is the excess of a trade which also closed a lot, in either
\* direction.
C5_Witness ==
    \E sym \in DOMAIN positions, side \in {"long", "short"} :
        /\ positions[sym][side] # <<>>
        /\ LET lot == positions[sym][side][1]
           IN /\ lot.qty < TradeById(lot.trade_id).quantity
              /\ lot.fee_per_share > 0
              /\ \E k \in 1..Len(realized) : realized[k].exit_trade_id = lot.trade_id

\* C6: the fees of the trades processed so far equal the fees carried by the
\* matches, (entry fee per share + exit fee per share) * qty, which is what
\* a match's pnl falls short of its gain, plus the fees carried by the open
\* lots, fee per share * remaining quantity.
C6_FeeConservation ==
    LET FeesOfMatches ==
            SumFn([k \in 1..Len(realized) |->
                      MatchGain(realized[k]) * realized[k].qty * Scale - realized[k].pnl],
                  1..Len(realized))
        FeesOfLots(side) ==
            SumFn([sym \in DOMAIN positions |->
                      SumFn([k \in 1..Len(positions[sym][side]) |->
                                positions[sym][side][k].fee_per_share
                                * positions[sym][side][k].qty],
                            1..Len(positions[sym][side]))],
                  DOMAIN positions)
        FeesOfTrades ==
            SumFn([k \in 1..idx |-> trades_sorted[k].fees * Scale], 1..idx)
    IN FeesOfTrades = FeesOfMatches + FeesOfLots("long") + FeesOfLots("short")

\* The fee of one trade is split between a match and the lot left open.
C6_Witness ==
    \E sym \in DOMAIN positions, side \in {"long", "short"} :
        /\ positions[sym][side] # <<>>
        /\ LET lot == positions[sym][side][1]
           IN /\ TradeById(lot.trade_id).fees > 0
              /\ lot.qty < TradeById(lot.trade_id).quantity
              /\ \E k \in 1..Len(realized) : realized[k].entry_trade_id = lot.trade_id

---------------------------------------------------------------------------
\* What the properties of the overview speak about.

SeqSet(q) == {q[k] : k \in 1..Len(q)}

\* The symbols the caller sent a mark for, keys compared after upper / strip.
Supplied == {NormSymbol(request.marks[k].key) : k \in 1..Len(request.marks)}

\* The values the caller sent for a symbol.
SuppliedFor(sym) ==
    {request.marks[k].value :
        k \in {j \in 1..Len(request.marks) : NormSymbol(request.marks[j].key) = sym}}

\* The symbols with open quantity that the caller sent no mark for.
Lacking == {sym \in Symbols : OpenQty(sym) > 0} \ Supplied

\* The price of the last trade of a symbol in processing order.
LastTradePrice(sym) ==
    LET ks == {k \in 1..Len(trades_sorted) : NormSymbol(trades_sorted[k].symbol) = sym}
        last == CHOOSE k \in ks : \A j \in ks : j <= k
    IN trades_sorted[last].price

\* C7: a second run of compute_fifo on the same trades, after the first run
\* and the overview computed from it, returns the same matches, the same lot
\* queues and the same marks as the first.
C7_SameResultAgain ==
    (pc = "returned" /\ previous # <<>>) => previous = <<realized, positions, mark>>

\* A second run has returned matches and open lots.
C7_Witness ==
    /\ pc = "returned"
    /\ previous # <<>>
    /\ realized # <<>>
    /\ \E sym \in Symbols : OpenQty(sym) > 0

\* C8: a strict overview fails exactly when a symbol with open quantity has
\* no mark from the caller, and its error names exactly those symbols; a
\* non-strict overview never fails, lists exactly those symbols in
\* notes.missing_marks and values them at their last trade price.
C8_StrictMode ==
    pc = "done" =>
        /\ (snapshot.status = "error") <=> (request.strict /\ Lacking # {})
        /\ snapshot.status = "error" => SeqSet(snapshot.missing) = Lacking
        /\ ~request.strict =>
             /\ snapshot.status = "ok"
             /\ SeqSet(snapshot.missing_marks) = Lacking
             /\ \A k \in 1..Len(snapshot.open_positions) :
                  snapshot.open_positions[k].symbol \in Lacking
                      => snapshot.open_positions[k].mark_price
                         = LastTradePrice(snapshot.open_positions[k].symbol)

\* A strict request with a mark for one open symbol and none for the other
\* has failed.
C8_Witness ==
    /\ pc = "done"
    /\ request.strict
    /\ snapshot.status = "error"
    /\ \E sym \in Symbols : OpenQty(sym) > 0 /\ sym \in Supplied
    /\ \E sym \in Symbols : OpenQty(sym) > 0 /\ sym \notin Supplied

\* C9: when a strict overview succeeds, every open position is valued at a
\* mark the caller sent for its symbol, whatever the values of the marks.
C9_StrictNeverFallsBack ==
    (pc = "done" /\ request.strict /\ snapshot.status = "ok") =>
        \A k \in 1..Len(snapshot.open_positions) :
            snapshot.open_positions[k].mark_price
                \in SuppliedFor(snapshot.open_positions[k].symbol)

\* The request without its marks of value <= 0.
PositiveMarks ==
    LET IsPositive(e) == e.value > 0 IN SelectSeq(request.marks, IsPositive)

\* C10: an open symbol is valued at a mark the caller sent for it with
\* value > 0 when there is one, at its last trade price otherwise, and the
\* marks of value <= 0 change nothing of the valuation.
C10_EffectiveMark ==
    (pc = "done" /\ snapshot.status = "ok") =>
        /\ \A k \in 1..Len(snapshot.open_positions) :
             LET row == snapshot.open_positions[k]
                 usable == {v \in SuppliedFor(row.symbol) : v > 0}
             IN IF usable # {} THEN row.mark_price \in usable
                ELSE row.mark_price = LastTradePrice(row.symbol)
        /\ LET without == overview_from_trades(realized, positions, mark,
                                               KeyOrder(trades_sorted),
                                               PositiveMarks, FALSE)
           IN /\ snapshot.open_positions = without.open_positions
              /\ snapshot.unrealized_pnl = without.unrealized_pnl
              /\ snapshot.total_pnl = without.total_pnl

\* C10 on the requests in which no two keys normalise to the same symbol.
C10_NoCollision ==
    (\A i, j \in 1..Len(request.marks) :
        i # j => NormSymbol(request.marks[i].key) # NormSymbol(request.marks[j].key))
    => C10_EffectiveMark

---------------------------------------------------------------------------
\* What the properties of the processing order speak about.

\* Row j of the account comes before row k in time order, input order
\* deciding between rows of the same trade_time.
EarlierRow(j, k) ==
    \/ trades[j].trade_time < trades[k].trade_time
    \/ trades[j].trade_time = trades[k].trade_time /\ j < k

\* The rows of a symbol, and the last of them in time order.
RowsOf(sym) == {k \in 1..Len(trades) : NormSymbol(trades[k].symbol) = sym}

LastRowOf(sym) == CHOOSE k \in RowsOf(sym) : \A j \in RowsOf(sym) \ {k} : EarlierRow(j, k)

\* C11: when compute_fifo returns, the mark map has exactly the symbols of
\* the trades, each at the price of the last trade of the symbol in time
\* order, be that trade a BUY or a SELL, of quantity 0 or not.
C11_MarkIsLastTradePrice ==
    pc = "returned" =>
        /\ DOMAIN mark = {sym \in Symbols : RowsOf(sym) # {}}
        /\ \A sym \in DOMAIN mark : mark[sym] = trades[LastRowOf(sym)].price

\* The last trade of a symbol in time order comes first in the input, has
\* quantity 0 and another price than the trade before it.
C11_Witness ==
    /\ pc = "returned"
    /\ Len(trades) = 2
    /\ NormSymbol(trades[1].symbol) = NormSymbol(trades[2].symbol)
    /\ trades[2].trade_time < trades[1].trade_time
    /\ trades[1].quantity = 0
    /\ trades[1].price # trades[2].price
    /\ trades[2].quantity > 0

\* C12: compute_fifo processes the rows of the account in ascending
\* trade_time whatever their input order, rows of equal trade_time in input
\* order; so the entry trade of every match comes before its exit trade in
\* that order, and among two rows of equal time the earlier in the input is
\* the one that opened the lot.
C12_TimeOrderStable ==
    /\ pc # "idle" =>
         /\ Len(trades_sorted) = Len(trades)
         /\ \A i \in 1..Len(trades_sorted) :
              trades_sorted[i] = trades[trades_sorted[i].id]
         /\ \A i, j \in 1..Len(trades_sorted) :
              i < j => EarlierRow(trades_sorted[i].id, trades_sorted[j].id)
    /\ \A k \in 1..Len(realized) :
         EarlierRow(realized[k].entry_trade_id, realized[k].exit_trade_id)

\* Two rows of one symbol and one trade_time, a BUY and a SELL: the first in
\* the input opened the lot that the second closed.
C12_Witness ==
    /\ pc = "returned"
    /\ Len(trades) = 2
    /\ trades[1].trade_time = trades[2].trade_time
    /\ Len(realized) = 1
    /\ realized[1].entry_trade_id = 1
    /\ realized[1].exit_trade_id = 2

\* A row later in the input and earlier in time has been processed first.
C12_WitnessBackdated ==
    /\ pc = "returned"
    /\ Len(trades) = 2
    /\ trades[2].trade_time < trades[1].trade_time
    /\ Len(realized) = 1
    /\ realized[1].entry_trade_id = 2

\* C13: no step of compute_fifo changes the trade list it was given or a
\* trade of it (sorted() builds a new list, the loop only reads t), and once
\* compute_fifo has returned, the overview computed from its result changes
\* none of the matches, lot queues and marks it returned (effective_mark is
\* a copy, compute_unrealized only reads).
C13_Purity ==
    [][/\ trades' = trades
       /\ pc = "loop" => trades_sorted' = trades_sorted
       /\ pc \in {"returned", "done"} => UNCHANGED <<realized, positions, mark>>]_vars

\* An overview has valued an open symbol at a mark of the caller that
\* differs from the symbol's last trade price.
C13_Witness ==
    /\ pc = "done"
    /\ snapshot.status = "ok"
    /\ \E k \in 1..Len(snapshot.open_positions) :
         LET row == snapshot.open_positions[k]
         IN /\ row.mark_price \in SuppliedFor(row.symbol)
            /\ row.mark_price # mark[row.symbol]

\* C14: every row of the account has quantity > 0, price > 0 and side BUY or
\* SELL, whichever operations stored it; so compute_fifo is never handed
\* another kind of row.
C14_OnlyValidTradesStored ==
    \A k \in 1..Len(trades) :
        /\ trades[k].quantity > 0
        /\ trades[k].price > 0
        /\ trades[k].side \in Sides

\* C15: after any prefix of the trades, every lot in a long or short queue
\* has a quantity of at least 1 and at most the quantity of the trade that
\* opened it, and every match is of at least 1 share: a lot that reaches 0
\* leaves the queue at once, so no later match examines it, and no lot goes
\* below 0.
C15_LotQuantities ==
    /\ \A sym \in DOMAIN positions, side \in {"long", "short"} :
         \A k \in 1..Len(positions[sym][side]) :
             /\ positions[sym][side][k].qty >= 1
             /\ positions[sym][side][k].qty
                    <= TradeById(positions[sym][side][k].trade_id).quantity
    /\ \A k \in 1..Len(realized) : realized[k].qty >= 1

\* One trade has closed a lot in full, which left the queue, and then a
\* part of the lot behind it, which is now the head of the queue.
C15_Witness ==
    \E sym \in DOMAIN positions, side \in {"long", "short"} :
        /\ positions[sym][side] # <<>>
        /\ LET head == positions[sym][side][1]
           IN /\ head.qty < TradeById(head.trade_id).quantity
              /\ \E j, k \in 1..Len(realized) :
                   /\ realized[j].symbol = sym
                   /\ realized[j].entry_trade_id # head.trade_id
                   /\ realized[j].qty = TradeById(realized[j].entry_trade_id).quantity
                   /\ realized[k].entry_trade_id = head.trade_id
                   /\ realized[k].exit_trade_id = realized[j].exit_trade_id

\* C16: a trade of quantity 0 is processed like any other (the loop goes on
\* to the next trade), sets the mark of its symbol to its price, emits no
\* match, opens no lot and changes no lot of any symbol; at most its symbol
\* enters positions with two empty queues.
C16_ZeroQuantityNoOp ==
    [][(pc = "loop" /\ idx < Len(trades_sorted) /\ StepTrade.quantity = 0) =>
        /\ pc' = "loop"
        /\ idx' = idx + 1
        /\ realized' = realized
        /\ DOMAIN positions' = DOMAIN positions \cup {StepSym}
        /\ \A sym \in DOMAIN positions : positions'[sym] = positions[sym]
        /\ StepSym \notin DOMAIN positions => positions'[StepSym] = EmptyPosition
        /\ DOMAIN mark' = DOMAIN mark \cup {StepSym}
        /\ mark'[StepSym] = StepTrade.price
        /\ \A sym \in DOMAIN mark \ {StepSym} : mark'[sym] = mark[sym]]_vars

\* A trade of quantity 0 has been processed after a trade of its symbol
\* that opened a lot at another price, and on the lot's opposite side.
C16_Witness ==
    /\ pc = "loop"
    /\ idx = 2
    /\ trades_sorted[2].quantity = 0
    /\ trades_sorted[1].quantity > 0
    /\ trades_sorted[1].side # trades_sorted[2].side
    /\ trades_sorted[1].price # trades_sorted[2].price
    /\ NormSymbol(trades_sorted[1].symbol) = NormSymbol(trades_sorted[2].symbol)
    /\ trades_sorted[2].fees > 0

---------------------------------------------------------------------------
\* What the properties of the symbols speak about.

LowerChar(c) ==
    CASE c = "A" -> "a"
      [] c = "B" -> "b"
      [] OTHER -> c

\* Two spellings of one symbol: equal but for letter case and for the
\* whitespace around them.
SameSymbol(r, u) ==
    Strip([k \in 1..Len(r) |-> LowerChar(r[k])])
        = Strip([k \in 1..Len(u) |-> LowerChar(u[k])])

\* No lowercase letter, no whitespace at either end.
IsCanonical(sym) ==
    /\ \A k \in 1..Len(sym) : sym[k] \notin {"a", "b"}
    /\ sym # <<>> => ~IsSpace(sym[1]) /\ ~IsSpace(sym[Len(sym)])

\* The lots open after the trades processed so far, whatever their key.
OpenLots ==
    UNION {SeqSet(positions[sym][side]) :
              sym \in DOMAIN positions, side \in {"long", "short"}}

\* C17: every symbol in the matches, in positions and in the mark map is in
\* uppercase and trimmed; the lots and matches of a trade are under a
\* spelling of the trade's symbol, and every processed trade has its position
\* and its mark; so trades whose symbols differ in case or outer whitespace
\* only share one position, where a lot of one is closed by the other: two
\* lots of one symbol, however spelled, are never open on opposite sides.
C17_SymbolsFolded ==
    /\ \A sym \in DOMAIN positions \cup DOMAIN mark : IsCanonical(sym)
    /\ \A k \in 1..Len(realized) :
         /\ IsCanonical(realized[k].symbol)
         /\ SameSymbol(TradeById(realized[k].entry_trade_id).symbol, realized[k].symbol)
         /\ SameSymbol(TradeById(realized[k].exit_trade_id).symbol, realized[k].symbol)
    /\ \A sym \in DOMAIN positions, side \in {"long", "short"} :
         \A k \in 1..Len(positions[sym][side]) :
             SameSymbol(TradeById(positions[sym][side][k].trade_id).symbol, sym)
    /\ \A i \in 1..idx :
         \E sym \in DOMAIN positions \cap DOMAIN mark :
             SameSymbol(trades_sorted[i].symbol, sym)
    /\ \A l1, l2 \in OpenLots :
         SameSymbol(TradeById(l1.trade_id).symbol, TradeById(l2.trade_id).symbol)
             => TradeById(l1.trade_id).side = TradeById(l2.trade_id).side

\* A BUY of "A" and a SELL of "a " of the same quantity: one match under
\* "A", nothing left open.
C17_Witness ==
    /\ pc = "returned"
    /\ Len(trades) = 2
    /\ \E i, j \in 1..2 :
         /\ trades[i].symbol = <<"A">> /\ trades[i].side = "BUY"
         /\ trades[j].symbol = <<"a", " ">> /\ trades[j].side = "SELL"
         /\ Len(realized) = 1
         /\ realized[1].entry_trade_id = i
         /\ realized[1].exit_trade_id = j
         /\ realized[1].symbol = <<"A">>
    /\ OpenLots = {}

---------------------------------------------------------------------------
\* What the properties of compute_unrealized speak about.

\* Sum over the lots of a queue of (px * qty) - (price + fee_per_share) * qty.
LongLotsAt(lots, px) ==
    SumFn([k \in 1..Len(lots) |->
              px * Scale * lots[k].qty
              - (lots[k].price * Scale + lots[k].fee_per_share) * lots[k].qty],
          1..Len(lots))

\* Sum over the lots of a queue of (price - fee_per_share) * qty - px * qty.
ShortLotsAt(lots, px) ==
    SumFn([k \in 1..Len(lots) |->
              (lots[k].price * Scale - lots[k].fee_per_share) * lots[k].qty
              - px * Scale * lots[k].qty],
          1..Len(lots))

\* C18: compute_unrealized returns one entry per symbol of positions; for a
\* symbol with an entry in the mark map it is the sum over the open long
\* lots of mark * qty - (price + fee_per_share) * qty plus the sum over the
\* open short lots of (price - fee_per_share) * qty - mark * qty.
C18_UnrealizedFormula ==
    pc = "done" =>
        /\ DOMAIN snapshot.unrealized_by_symbol = DOMAIN positions
        /\ \A sym \in DOMAIN positions \cap DOMAIN snapshot.mark :
             snapshot.unrealized_by_symbol[sym]
                 = LongLotsAt(positions[sym].long, snapshot.mark[sym])
                   + ShortLotsAt(positions[sym].short, snapshot.mark[sym])

\* A long lot of one symbol and a short lot of another, one of them with a
\* fee, both valued at a mark.
C18_Witness ==
    /\ pc = "done"
    /\ \E s1, s2 \in DOMAIN positions \cap DOMAIN snapshot.mark :
         /\ positions[s1].long # <<>>
         /\ positions[s2].short # <<>>
         /\ positions[s2].short[1].fee_per_share > 0
         /\ snapshot.unrealized_by_symbol[s1] # 0
         /\ snapshot.unrealized_by_symbol[s2] # 0

\* C19 as claimed: a symbol with open lots and no entry in the mark map has
\* an unrealized PnL of 0.
C19_UnmarkedIsZero ==
    pc = "done" =>
        \A sym \in DOMAIN positions \ DOMAIN snapshot.mark :
            (positions[sym].long # <<>> \/ positions[sym].short # <<>>)
                => snapshot.unrealized_by_symbol[sym] = 0

\* C19 amended: compute_unrealized returns an entry for a symbol with open
\* lots and no entry in the mark map too, and values its lots at a mark of
\* 0: minus (price + fee_per_share) * qty for each long lot, plus
\* (price - fee_per_share) * qty for each short lot.
C19_UnmarkedValuedAtZero ==
    pc = "done" =>
        \A sym \in DOMAIN positions \ DOMAIN snapshot.mark :
            /\ sym \in DOMAIN snapshot.unrealized_by_symbol
            /\ snapshot.unrealized_by_symbol[sym]
                 = - SumFn([k \in 1..Len(positions[sym].long) |->
                               (positions[sym].long[k].price * Scale
                                + positions[sym].long[k].fee_per_share)
                               * positions[sym].long[k].qty],
                           1..Len(positions[sym].long))
                   + SumFn([k \in 1..Len(positions[sym].short) |->
                               (positions[sym].short[k].price * Scale
                                - positions[sym].short[k].fee_per_share)
                               * positions[sym].short[k].qty],
                           1..Len(positions[sym].short))

\* A symbol with an open long lot and another with an open short lot, none
\* of them in the mark map, have been valued.
C19_Witness ==
    /\ pc = "done"
    /\ \E s1, s2 \in DOMAIN positions \ DOMAIN snapshot.mark :
         /\ positions[s1].long # <<>>
         /\ positions[s2].short # <<>>

---------------------------------------------------------------------------
\* What the properties of the overview's metrics speak about.

\* The matches of pnl > 0 and of pnl < 0.
Winning == {k \in 1..Len(realized) : realized[k].pnl > 0}

Losing == {k \in 1..Len(realized) : realized[k].pnl < 0}

\* C20: the overview's win_rate is the number of matches of pnl > 0 over
\* max(1, that number plus the number of matches of pnl < 0): a match of
\* pnl 0 is in neither count, an account with no match or with matches of
\* pnl 0 only has win_rate 0 (and no division by 0), and 0 <= win_rate <= 1.
C20_WinRate ==
    (pc = "done" /\ snapshot.status = "ok") =>
        LET w == Cardinality(Winning)
            l == Cardinality(Losing)
            rate == snapshot.win_rate
        IN /\ rate.den >= 1
           /\ rate.num * (IF w + l >= 1 THEN w + l ELSE 1) = w * rate.den
           /\ w + l = 0 => rate.num = 0
           /\ 0 <= rate.num /\ rate.num <= rate.den

\* An account with a winning match and a match of pnl 0 has win_rate 1.
C20_Witness ==
    /\ pc = "done"
    /\ snapshot.status = "ok"
    /\ Len(realized) = 2
    /\ Cardinality(Winning) = 1
    /\ Cardinality(Losing) = 0
    /\ snapshot.win_rate.num = snapshot.win_rate.den

\* An account with a winning and a losing match has win_rate 1/2.
C20_WitnessHalf ==
    /\ pc = "done"
    /\ Cardinality(Winning) = 1
    /\ Cardinality(Losing) = 1
    /\ snapshot.win_rate.num * 2 = snapshot.win_rate.den

\* An account whose only match has pnl 0 has win_rate 0.
C20_WitnessZero ==
    /\ pc = "done"
    /\ Len(realized) = 1
    /\ realized[1].pnl = 0
    /\ snapshot.win_rate.num = 0

---------------------------------------------------------------------------
\* What the properties of the equity curve speak about.

\* Match i is not after match j in exit-time order (ties in list order).
ExitNotAfter(i, j) ==
    \/ realized[i].exit_time < realized[j].exit_time
    \/ realized[i].exit_time = realized[j].exit_time /\ i <= j

\* The cumulative realized pnl up to and including match j.
EquityAt(j) ==
    SumFn([i \in 1..Len(realized) |-> realized[i].pnl],
          {i \in 1..Len(realized) : ExitNotAfter(i, j)})

\* The drops of the equity curve: e_i - e_j for every i not after j.
Drops ==
    {EquityAt(p[1]) - EquityAt(p[2]) :
        p \in {q \in (1..Len(realized)) \X (1..Len(realized)) :
                  ExitNotAfter(q[1], q[2])}}

\* C21: the overview's drawdown is the maximum over i <= j of e_i - e_j,
\* where e_1..e_n is the running cumulative sum of realized pnl in exit-time
\* order; it is never negative and is 0 when there is no match.
C21_MaxDrawdown ==
    (pc = "done" /\ snapshot.status = "ok") =>
        /\ snapshot.drawdown >= 0
        /\ realized = <<>> => snapshot.drawdown = 0
        /\ realized # <<>> =>
              /\ snapshot.drawdown \in Drops
              /\ \A d \in Drops : d <= snapshot.drawdown

\* A win, a loss, a win: the drawdown is the drop from the first peak.
C21_Witness ==
    /\ pc = "done"
    /\ snapshot.status = "ok"
    /\ Len(realized) = 3
    /\ realized[1].pnl > 0
    /\ realized[2].pnl < 0
    /\ realized[3].pnl > 0
    /\ snapshot.drawdown = -realized[2].pnl

\* An account whose only match is a loss has drawdown 0: the first point of
\* the curve is its own peak.
C21_WitnessFirstLoss ==
    /\ pc = "done"
    /\ Len(realized) = 1
    /\ realized[1].pnl < 0
    /\ snapshot.drawdown = 0

---------------------------------------------------------------------------
\* What the properties of the metric functions speak about.

\* The returns of a call are all the same number.
AllEqual(returns) ==
    \A j \in 1..Len(returns), k \in 1..Len(returns) : returns[j] = returns[k]

NoneNegative(returns) == \A k \in 1..Len(returns) : returns[k] >= 0

\* C22: no call of a metric function raises; each returns None or a finite
\* number. sharpe_ratio returns None for fewer than 2 points or a standard
\* deviation of 0, sortino_ratio for fewer than 2 points or no negative
\* return, calmar_ratio for max_dd <= 0, profit_factor for gross_loss >= 0,
\* and expectancy returns None only when both lists are empty.
C22_NeverRaises ==
    pc = "done" =>
        /\ snapshot.kind \in {"null", "value"}
        /\ request.fn = "sharpe_ratio" =>
              (Len(request.args[1]) < 2 \/ AllEqual(request.args[1])
                  => snapshot = Null)
        /\ request.fn = "sortino_ratio" =>
              (Len(request.args[1]) < 2 \/ NoneNegative(request.args[1])
                  => snapshot = Null)
        /\ request.fn = "calmar_ratio" =>
              (request.args[2] <= 0 => snapshot = Null)
        /\ request.fn = "profit_factor" =>
              (request.args[2] >= 0 => snapshot = Null)
        /\ request.fn = "expectancy" =>
              (snapshot = Null <=> request.args[1] = <<>> /\ request.args[2] = <<>>)

\* What does hold: a call raises only OverflowError, and only when a return
\* is too large to be squared; the None cases are as stated.
C22_RaisesOnlyOverflow ==
    pc = "done" =>
        /\ snapshot.kind = "raise" =>
              /\ snapshot.error = "OverflowError"
              /\ request.fn \in {"sharpe_ratio", "sortino_ratio"}
              /\ \E k \in 1..Len(request.args[1]) :
                    Abs(request.args[1][k]) > SqrtFloatMax
        /\ request.fn = "sharpe_ratio" =>
              (Len(request.args[1]) < 2 \/ AllEqual(request.args[1])
                  => snapshot = Null)
        /\ request.fn = "sortino_ratio" =>
              (Len(request.args[1]) < 2 \/ NoneNegative(request.args[1])
                  => snapshot = Null)
        /\ request.fn = "calmar_ratio" =>
              (request.args[2] <= 0 => snapshot = Null)
        /\ request.fn = "profit_factor" =>
              (request.args[2] >= 0 => snapshot = Null)
        /\ request.fn = "expectancy" =>
              (snapshot = Null <=> request.args[1] = <<>> /\ request.args[2] = <<>>)

\* sharpe_ratio of a very large return and 0 raises.
C22_WitnessOverflow ==
    /\ pc = "done"
    /\ request.fn = "sharpe_ratio"
    /\ request.args = <<<<HugeReturn, 0>>>>
    /\ snapshot = Raised("OverflowError")

\* The sums of the winning and of the losing pnl.
GrossProfit == SumFn([k \in 1..Len(realized) |-> realized[k].pnl], Winning)

GrossLoss == SumFn([k \in 1..Len(realized) |-> realized[k].pnl], Losing)

\* C23: the overview's profit_factor is not None exactly when some realized
\* match has pnl < 0, and then it is the sum of the winning pnl over the
\* absolute value of the sum of the losing pnl (0 without a winning match).
C23_ProfitFactor ==
    (pc = "done" /\ snapshot.status = "ok") =>
        LET pf == snapshot.advanced_metrics.profit_factor
        IN /\ pf.kind \in {"null", "value"}
           /\ pf.kind = "value" <=> Losing # {}
           /\ pf.kind = "value" =>
                 /\ pf.den > 0
                 /\ pf.num * (-GrossLoss) = GrossProfit * pf.den
                 /\ Winning = {} => pf.num = 0

\* Two wins and a loss: a profit factor above 0.
C23_Witness ==
    /\ pc = "done"
    /\ snapshot.status = "ok"
    /\ Cardinality(Winning) = 2
    /\ Cardinality(Losing) = 1
    /\ snapshot.advanced_metrics.profit_factor.kind = "value"
    /\ snapshot.advanced_metrics.profit_factor.num > 0

\* Losses only: profit factor 0. Wins only: None.
C23_WitnessLossesOnly ==
    /\ pc = "done"
    /\ Winning = {}
    /\ Losing # {}
    /\ snapshot.advanced_metrics.profit_factor.kind = "value"
    /\ snapshot.advanced_metrics.profit_factor.num = 0

C23_WitnessWinsOnly ==
    /\ pc = "done"
    /\ Winning # {}
    /\ Losing = {}
    /\ snapshot.advanced_metrics.profit_factor = Null

---------------------------------------------------------------------------
\* What the properties of the breakdowns speak about.

\* The tag of a trade in the journal of the request, <<>> when it has none.
JournalTag(id, field) ==
    IF id \in DOMAIN request.journal THEN request.journal[id][field] ELSE <<>>

\* The matches whose exit trade, or entry trade, has the tag of a key: a
\* key names the tag it is the stripped form of, the key of untagged
\* matches names the empty tag.
TaggedLike(tag_value, key, untagged) ==
    IF tag_value = <<>> \/ Strip(tag_value) = <<>>
    THEN key = untagged \/ key = Strip(tag_value)
    ELSE Strip(key) = Strip(tag_value)

ByExitTag(field, key, untagged) ==
    {k \in 1..Len(realized) :
        TaggedLike(JournalTag(realized[k].exit_trade_id, field), key, untagged)}

ByEntryTag(field, key, untagged) ==
    {k \in 1..Len(realized) :
        TaggedLike(JournalTag(realized[k].entry_trade_id, field), key, untagged)}

PnlOf(S) == SumFn([k \in 1..Len(realized) |-> realized[k].pnl], S)

\* The rows of a breakdown count the matches of the exit trade's tag.
BreakdownByExit(rows, field) ==
    /\ \A i \in 1..Len(rows) :
          LET S == ByExitTag(field, rows[i].key, Dash)
          IN rows[i].matches = Cardinality(S) /\ rows[i].pnl = PnlOf(S)
    /\ \A k \in 1..Len(realized) :
          \E i \in 1..Len(rows) : k \in ByExitTag(field, rows[i].key, Dash)

\* The rows of the strategy matrix count the matches of the exit trade's
\* strategy.
MatrixByExit(rows) ==
    /\ \A i \in 1..Len(rows) :
          LET S == ByExitTag("strategy", rows[i].strategy, Unknown)
          IN rows[i].trades = Cardinality(S) /\ rows[i].total_pnl = PnlOf(S)
    /\ \A k \in 1..Len(realized) :
          \E i \in 1..Len(rows) : k \in ByExitTag("strategy", rows[i].strategy, Unknown)

\* The rows of the strategy matrix count the matches of the entry trade's
\* strategy.
MatrixByEntry(rows) ==
    /\ \A i \in 1..Len(rows) :
          LET S == ByEntryTag("strategy", rows[i].strategy, Unknown)
          IN rows[i].trades = Cardinality(S) /\ rows[i].total_pnl = PnlOf(S)
    /\ \A k \in 1..Len(realized) :
          \E i \in 1..Len(rows) : k \in ByEntryTag("strategy", rows[i].strategy, Unknown)

\* C24: every per-strategy and per-emotion figure counts a realized match
\* under the tag of its exit trade, never of its entry trade: the
\* by_strategy and by_emotion breakdowns of performance_from_trades and the
\* rows of the strategy comparison matrix.
C24_ExitAttribution ==
    pc = "done" =>
        /\ request.fn = "performance" =>
              /\ BreakdownByExit(snapshot.breakdowns.by_strategy, "strategy")
              /\ BreakdownByExit(snapshot.breakdowns.by_emotion, "emotion")
        /\ request.fn = "strategy_comparison_matrix" =>
              MatrixByExit(snapshot.strategies)

\* What does hold: the breakdowns go by the exit trade's tag, the strategy
\* matrix by the entry trade's.
C24_MatrixByEntry ==
    pc = "done" =>
        /\ request.fn = "performance" =>
              /\ BreakdownByExit(snapshot.breakdowns.by_strategy, "strategy")
              /\ BreakdownByExit(snapshot.breakdowns.by_emotion, "emotion")
        /\ request.fn = "strategy_comparison_matrix" =>
              MatrixByEntry(snapshot.strategies)

\* A match whose entry and exit trades have different strategies is in the
\* matrix under its entry trade's strategy.
C24_WitnessMatrix ==
    /\ pc = "done"
    /\ request.fn = "strategy_comparison_matrix"
    /\ Len(realized) = 1
    /\ DOMAIN request.journal = {1, 2}
    /\ request.journal[1].strategy = <<"m">>
    /\ request.journal[2].strategy = <<"r", " ">>
    /\ Len(snapshot.strategies) = 1
    /\ snapshot.strategies[1].strategy = <<"m">>

\* The same match is in the by_strategy breakdown under its exit trade's.
C24_WitnessBreakdown ==
    /\ pc = "done"
    /\ request.fn = "performance"
    /\ Len(realized) = 1
    /\ DOMAIN request.journal = {1, 2}
    /\ request.journal[1].strategy = <<"m">>
    /\ request.journal[2].strategy = <<"r", " ">>
    /\ Len(snapshot.breakdowns.by_strategy) = 1
    /\ snapshot.breakdowns.by_strategy[1].key = <<"r">>

---------------------------------------------------------------------------
\* What the property of the streaks speaks about.

\* The place of match k in exit-time order, and the match of a place.
ExitRank(k) == Cardinality({i \in 1..Len(realized) : ExitNotAfter(i, k)})

MatchAt(r) == realized[CHOOSE k \in 1..Len(realized) : ExitRank(k) = r]

\* The lengths of the runs of consecutive matches of pnl > 0, of pnl < 0.
WinRuns ==
    {p[2] - p[1] + 1 :
        p \in {q \in (1..Len(realized)) \X (1..Len(realized)) :
                  /\ q[1] <= q[2]
                  /\ \A r \in q[1]..q[2] : MatchAt(r).pnl > 0}}

LossRuns ==
    {p[2] - p[1] + 1 :
        p \in {q \in (1..Len(realized)) \X (1..Len(realized)) :
                  /\ q[1] <= q[2]
                  /\ \A r \in q[1]..q[2] : MatchAt(r).pnl < 0}}

Longest(lengths) ==
    IF lengths = {} THEN 0 ELSE CHOOSE n \in lengths : \A m \in lengths : m <= n

\* C25: over the realized matches in exit-time order, max_win_streak is the
\* length of the longest run of consecutive matches of pnl > 0 and
\* max_loss_streak that of the longest run of pnl < 0; a match of pnl 0 is in
\* no run, so it ends the run before it and extends neither.
C25_Streaks ==
    (pc = "done" /\ request.fn = "performance") =>
        /\ snapshot.stats.max_win_streak = Longest(WinRuns)
        /\ snapshot.stats.max_loss_streak = Longest(LossRuns)

\* A win, a match of pnl 0, a win: the longest win streak is 1.
C25_Witness ==
    /\ pc = "done"
    /\ request.fn = "performance"
    /\ Len(realized) = 3
    /\ realized[1].pnl > 0
    /\ realized[2].pnl = 0
    /\ realized[3].pnl > 0
    /\ snapshot.stats.max_win_streak = 1
    /\ snapshot.stats.max_loss_streak = 0

\* Two losses, then a win: a loss streak of 2 and a win streak of 1.
C25_WitnessLosses ==
    /\ pc = "done"
    /\ request.fn = "performance"
    /\ Len(realized) = 3
    /\ realized[1].pnl < 0
    /\ realized[2].pnl < 0
    /\ realized[3].pnl > 0
    /\ snapshot.stats.max_loss_streak = 2
    /\ snapshot.stats.max_win_streak = 1

---------------------------------------------------------------------------
\* What the properties of the tax report speak about.

\* The four lists of the report.
TaxLists ==
    [short_term_gains |-> snapshot.short_term.gains,
     short_term_losses |-> snapshot.short_term.losses,
     long_term_gains |-> snapshot.long_term.gains,
     long_term_losses |-> snapshot.long_term.losses]

\* How often match k is in a list.
TimesIn(list, k) ==
    Cardinality({i \in 1..Len(list) :
        /\ list[i].entry_trade_id = realized[k].entry_trade_id
        /\ list[i].exit_trade_id = realized[k].exit_trade_id})

\* The time match k was held, in hours.
HeldHours(k) == realized[k].exit_time - realized[k].entry_time

\* Match k was held for the threshold's number of whole days or more.
HeldLong(k) == HeldHours(k) >= DefaultLongTermDays * HoursPerDay

\* The exit date of match k is of the requested year.
ExitInYear(k) ==
    LET first_hour == (request.tax_year - FirstYear) * DaysPerYear * HoursPerDay
    IN /\ first_hour <= realized[k].exit_time
       /\ realized[k].exit_time < first_hour + DaysPerYear * HoursPerDay

\* The matches the report is about.
Reported == {k \in 1..Len(realized) : ExitInYear(k) /\ realized[k].pnl # 0}

\* C26: a match of the report is in a long-term list exactly when the whole
\* days between its entry and its exit are at least the threshold (365): a
\* match held 365 days to the hour is long-term, a match held 364 days and
\* up to 23 hours is short-term.
C26_HoldingPeriod ==
    pc = "done" =>
        \A k \in Reported :
            /\ HeldLong(k) <=>
                  TimesIn(TaxLists.long_term_gains, k)
                      + TimesIn(TaxLists.long_term_losses, k) > 0
            /\ ~HeldLong(k) <=>
                  TimesIn(TaxLists.short_term_gains, k)
                      + TimesIn(TaxLists.short_term_losses, k) > 0

\* A match held exactly 365 days is in a long-term list.
C26_Witness ==
    /\ pc = "done"
    /\ \E k \in Reported :
          /\ HeldHours(k) = DefaultLongTermDays * HoursPerDay
          /\ TimesIn(TaxLists.long_term_gains, k) = 1

\* A match held 364 days and 23 hours is in a short-term list.
C26_WitnessShort ==
    /\ pc = "done"
    /\ \E k \in Reported :
          /\ HeldHours(k) = DefaultLongTermDays * HoursPerDay - 1
          /\ TimesIn(TaxLists.short_term_losses, k) = 1

\* The list a match of the report belongs to.
ListOf(k) ==
    IF HeldLong(k)
    THEN (IF realized[k].pnl > 0 THEN "long_term_gains" ELSE "long_term_losses")
    ELSE (IF realized[k].pnl > 0 THEN "short_term_gains" ELSE "short_term_losses")

\* C27: a realized match whose exit date is of the tax year and whose pnl
\* is not 0 is once in the list its holding period and the sign of its pnl
\* choose and in no other of the four lists; a match of pnl 0 or of another
\* year is in none, and the lists hold nothing else.
C27_Partition ==
    pc = "done" =>
        /\ \A k \in 1..Len(realized), name \in DOMAIN TaxLists :
              TimesIn(TaxLists[name], k) =
                  IF k \in Reported /\ name = ListOf(k) THEN 1 ELSE 0
        /\ Len(TaxLists.short_term_gains) + Len(TaxLists.short_term_losses)
              + Len(TaxLists.long_term_gains) + Len(TaxLists.long_term_losses)
              = Cardinality(Reported)

\* An account with a match of the year, a match of pnl 0 and a match of
\* another year: one row in the report.
C27_Witness ==
    /\ pc = "done"
    /\ Len(realized) = 3
    /\ Cardinality(Reported) = 1
    /\ \E k \in 1..Len(realized) : ExitInYear(k) /\ realized[k].pnl = 0
    /\ \E k \in 1..Len(realized) : ~ExitInYear(k) /\ realized[k].pnl # 0
    /\ snapshot.short_term.count + snapshot.long_term.count = 1

\* The matches of the report held long, or not, and their gains and losses.
BucketOf(long_term) == {k \in Reported : HeldLong(k) = long_term}

GainsOf(S) == PnlOf({k \in S : realized[k].pnl > 0})

LossesOf(S) == PnlOf({k \in S : realized[k].pnl < 0})

\* The figures of one bucket: net, taxable amount and tax.
BucketFigures(bucket, net, taxable_gain, tax, rate, matches) ==
    /\ bucket.total_gains = GainsOf(matches)
    /\ bucket.total_losses = LossesOf(matches)
    /\ bucket.total_losses <= 0
    /\ net = bucket.total_gains + bucket.total_losses
    /\ bucket.net = net
    /\ taxable_gain = (IF net > 0 THEN net ELSE 0)
    /\ tax.den > 0
    /\ tax.num * 100 = taxable_gain * rate * tax.den
    /\ rate >= 0 => tax.num >= 0

\* C28: for each bucket net is total gains plus total losses, the taxable
\* amount max(0, net) and the tax the taxable amount times the rate over
\* 100; total_tax is the sum of the two taxes. With rates >= 0 no tax is
\* negative, and the figures of a bucket depend on its own matches only: a
\* net loss of the other bucket reduces neither its taxable amount nor its
\* tax.
C28_TaxAmounts ==
    pc = "done" =>
        LET sm == snapshot.summary
        IN /\ BucketFigures(snapshot.short_term, sm.net_short_term,
                            sm.short_term_taxable_gain, sm.short_term_tax,
                            request.rates.short_term, BucketOf(FALSE))
           /\ BucketFigures(snapshot.long_term, sm.net_long_term,
                            sm.long_term_taxable_gain, sm.long_term_tax,
                            request.rates.long_term, BucketOf(TRUE))
           /\ sm.total_tax.num * sm.short_term_tax.den * sm.long_term_tax.den
                 = (sm.short_term_tax.num * sm.long_term_tax.den
                    + sm.long_term_tax.num * sm.short_term_tax.den) * sm.total_tax.den
           /\ sm.total_tax.num >= 0

\* A short-term net gain taxed in full beside a long-term net loss.
C28_Witness ==
    /\ pc = "done"
    /\ request.rates.short_term > 0
    /\ snapshot.summary.net_short_term > 0
    /\ snapshot.summary.net_long_term < 0
    /\ snapshot.summary.long_term_taxable_gain = 0
    /\ snapshot.summary.short_term_taxable_gain = snapshot.summary.net_short_term
    /\ snapshot.summary.total_tax = snapshot.summary.short_term_tax

\* The hints of the report for a bucket.
HintsOf(type) ==
    {i \in 1..Len(snapshot.tax_loss_harvesting) :
        snapshot.tax_loss_harvesting[i].type = type}

BucketHint(type, matches) ==
    LET winners == {k \in matches : realized[k].pnl > 0}
        losers == {k \in matches : realized[k].pnl < 0}
    IN /\ Cardinality(HintsOf(type)) = (IF winners # {} /\ losers # {} THEN 1 ELSE 0)
       /\ \A i \in HintsOf(type) :
             /\ snapshot.tax_loss_harvesting[i].available_loss = -LossesOf(matches)
             /\ snapshot.tax_loss_harvesting[i].available_loss > 0

\* C29: the report has a tax-loss-harvesting hint for a bucket exactly when
\* the bucket has, for the tax year, a losing and a winning match; its
\* available_loss is the absolute value of the bucket's loss total. The
\* other figures of the report are what they are without the hint: the
\* totals and the nets are those of the bucket's matches.
C29_HarvestingHint ==
    pc = "done" =>
        /\ BucketHint("short_term", BucketOf(FALSE))
        /\ BucketHint("long_term", BucketOf(TRUE))
        /\ Len(snapshot.tax_loss_harvesting)
              = Cardinality(HintsOf("short_term")) + Cardinality(HintsOf("long_term"))
        /\ snapshot.short_term.total_gains = GainsOf(BucketOf(FALSE))
        /\ snapshot.short_term.total_losses = LossesOf(BucketOf(FALSE))
        /\ snapshot.long_term.total_gains = GainsOf(BucketOf(TRUE))
        /\ snapshot.long_term.total_losses = LossesOf(BucketOf(TRUE))
        /\ snapshot.summary.net_short_term
              = GainsOf(BucketOf(FALSE)) + LossesOf(BucketOf(FALSE))
        /\ snapshot.summary.net_long_term
              = GainsOf(BucketOf(TRUE)) + LossesOf(BucketOf(TRUE))

\* A short-term gain and a short-term loss: one hint, for short_term.
C29_Witness ==
    /\ pc = "done"
    /\ \E k \in BucketOf(FALSE) : realized[k].pnl > 0
    /\ \E k \in BucketOf(FALSE) : realized[k].pnl < 0
    /\ \A k \in BucketOf(TRUE) : realized[k].pnl < 0
    /\ BucketOf(TRUE) # {}
    /\ Len(snapshot.tax_loss_harvesting) = 1
    /\ snapshot.tax_loss_harvesting[1].type = "short_term"

\* A bucket of losses only has no hint.
C29_WitnessNoHint ==
    /\ pc = "done"
    /\ Cardinality(BucketOf(FALSE)) = 2
    /\ \A k \in BucketOf(FALSE) : realized[k].pnl < 0
    /\ snapshot.tax_loss_harvesting = <<>>

---------------------------------------------------------------------------
\* C30: on an empty trade list compute_fifo returns no realized match, no
\* position and no mark, and the overview succeeds, whatever the marks and
\* the strict flag, with realized, unrealized and total pnl 0, win_rate 0,
\* drawdown 0, no open position and every advanced metric None: the figures
\* of _empty_analytics.
C30_EmptyAccount ==
    trades = <<>> =>
        /\ pc \in {"returned", "done"} =>
              /\ realized = <<>>
              /\ positions = EmptyDict
              /\ mark = EmptyDict
        /\ pc = "done" =>
              /\ snapshot.status = "ok"
              /\ snapshot.realized_pnl = 0
              /\ snapshot.unrealized_pnl = 0
              /\ snapshot.total_pnl = 0
              /\ snapshot.win_rate.num = 0
              /\ snapshot.drawdown = 0
              /\ snapshot.open_positions = <<>>
              /\ \A metric \in DOMAIN snapshot.advanced_metrics :
                    snapshot.advanced_metrics[metric] = Null
              /\ \A figure \in DOMAIN _empty_analytics :
                    snapshot[figure] = _empty_analytics[figure]

\* A strict overview with marks of an account without trades succeeds.
C30_Witness ==
    /\ trades = <<>>
    /\ pc = "done"
    /\ request.strict
    /\ request.marks # <<>>
    /\ snapshot.status = "ok"
    /\ snapshot.advanced_metrics.avg_holding_period_days = Null

---------------------------------------------------------------------------
\* What the accounting identities speak about.

\* What the trades of a symbol brought in: proceeds of the SELLs minus the
\* cost of the BUYs minus all fees (1/Scale units).
CashFlow(sym) ==
    SumFn([k \in 1..Len(trades) |->
              (IF trades[k].side = "SELL" THEN 1 ELSE -1)
                  * trades[k].price * trades[k].quantity * Scale
              - trades[k].fees * Scale],
          RowsOf(sym))

\* The realized pnl of a symbol.
RealizedOf(sym) ==
    SumFn([k \in 1..Len(realized) |-> realized[k].pnl],
          {k \in 1..Len(realized) : realized[k].symbol = sym})

\* The price a valuation uses for a symbol.
MarkUsed(sym) == IF sym \in DOMAIN snapshot.mark THEN snapshot.mark[sym] ELSE 0

\* The open quantity of a symbol at the price used, long minus short.
OpenValue(sym) ==
    (OpenQtyOf(sym, "long") - OpenQtyOf(sym, "short")) * MarkUsed(sym) * Scale

\* C31: for every list of trades of positive quantity and every mark map,
\* realized plus unrealized pnl is, symbol by symbol and in total, the
\* proceeds of the SELL trades minus the cost of the BUY trades minus all
\* fees plus (open long quantity - open short quantity) * mark: the sum does
\* not depend on which lots were paired.
C31_AccountingIdentity ==
    (pc = "done" /\ snapshot.status = "valued") =>
        /\ DOMAIN snapshot.unrealized_by_symbol = DOMAIN positions
        /\ \A sym \in DOMAIN positions :
              RealizedOf(sym) + snapshot.unrealized_by_symbol[sym]
                  = CashFlow(sym) + OpenValue(sym)
        /\ SumPnl(realized)
              + SumValues(snapshot.unrealized_by_symbol, DOMAIN positions)
              = SumFn([sym \in DOMAIN positions |-> CashFlow(sym) + OpenValue(sym)],
                      DOMAIN positions)

\* A position partly closed, with a fee, valued at a price of its own.
C31_Witness ==
    /\ pc = "done"
    /\ snapshot.status = "valued"
    /\ Len(realized) = 1
    /\ \E sym \in DOMAIN positions :
          /\ OpenQty(sym) > 0
          /\ sym \in DOMAIN snapshot.mark
          /\ RealizedOf(sym) # 0
          /\ snapshot.unrealized_by_symbol[sym] # 0
    /\ \E k \in 1..Len(trades) : trades[k].fees > 0


\* The quantity of a trade that sits in matches as their exit, in matches
\* as their entry, and in the open lot created from it.
ExitQty(id) ==
    SumFn([k \in 1..Len(realized) |-> realized[k].qty],
          {k \in 1..Len(realized) : realized[k].exit_trade_id = id})

EntryQty(id) ==
    SumFn([k \in 1..Len(realized) |-> realized[k].qty],
          {k \in 1..Len(realized) : realized[k].entry_trade_id = id})

LotQty(sym, side, id) ==
    SumFn([k \in 1..Len(LotsOf(sym, side)) |-> LotsOf(sym, side)[k].qty],
          {k \in 1..Len(LotsOf(sym, side)) : LotsOf(sym, side)[k].trade_id = id})

RemainingQty(id) ==
    SumFn([sym \in Symbols |-> LotQty(sym, "long", id) + LotQty(sym, "short", id)],
          Symbols)

\* BUY quantity minus SELL quantity of the trades of a symbol processed so far.
NetTradedQty(sym) ==
    SumFn([k \in 1..idx |->
              IF NormSymbol(trades_sorted[k].symbol) = sym
              THEN (IF trades_sorted[k].side = "BUY" THEN 1 ELSE -1)
                       * trades_sorted[k].quantity
              ELSE 0],
          1..idx)

\* C32: the quantity of every processed trade is the quantity of the matches
\* it is the exit of, plus the quantity of the matches it is the entry of,
\* plus the quantity of the open lot created from it (a trade not yet
\* processed is in none of them); so for every symbol BUY quantity minus
\* SELL quantity equals open long quantity minus open short quantity.
C32_QuantityConservation ==
    pc \in {"loop", "returned"} =>
        /\ \A i \in 1..Len(trades_sorted) :
              ExitQty(trades_sorted[i].id) + EntryQty(trades_sorted[i].id)
                      + RemainingQty(trades_sorted[i].id)
                  = IF i <= idx THEN trades_sorted[i].quantity ELSE 0
        /\ \A sym \in Symbols :
              NetTradedQty(sym) = OpenQtyOf(sym, "long") - OpenQtyOf(sym, "short")

\* A trade that closed a lot and opened one with what was left, after an
\* entry that was closed whole.
C32_Witness ==
    /\ pc = "returned"
    /\ \E i \in 1..Len(trades_sorted) :
          /\ ExitQty(trades_sorted[i].id) > 0
          /\ RemainingQty(trades_sorted[i].id) > 0
    /\ \E i \in 1..Len(trades_sorted) :
          /\ EntryQty(trades_sorted[i].id) = trades_sorted[i].quantity


\* The matches emitted so far.
Matches == {realized[k] : k \in 1..Len(realized)}

\* C33: every match pairs two distinct trades of the same normalized symbol
\* and opposite sides (closing a LONG: entry BUY, exit SELL; closing a SHORT:
\* entry SELL, exit BUY); the entry was processed strictly before the exit,
\* entry_time is not after exit_time, and the match quantity is at least 1
\* and at most the quantity of either trade.
C33_MatchPairs ==
    \A m \in Matches :
        LET entry == TradeById(m.entry_trade_id)
            exit == TradeById(m.exit_trade_id)
        IN /\ m.entry_trade_id # m.exit_trade_id
           /\ NormSymbol(entry.symbol) = m.symbol
           /\ NormSymbol(exit.symbol) = m.symbol
           /\ m.side_closed \in {"LONG", "SHORT"}
           /\ m.side_closed = "LONG" => entry.side = "BUY" /\ exit.side = "SELL"
           /\ m.side_closed = "SHORT" => entry.side = "SELL" /\ exit.side = "BUY"
           /\ Pos(m.entry_trade_id) < Pos(m.exit_trade_id)
           /\ Pos(m.exit_trade_id) <= idx
           /\ m.entry_time = entry.trade_time
           /\ m.exit_time = exit.trade_time
           /\ m.entry_time <= m.exit_time
           /\ 1 <= m.qty
           /\ m.qty <= entry.quantity
           /\ m.qty <= exit.quantity

\* A long and a short closed in one account, one of them in part and one by
\* a trade stored before its entry.
C33_Witness ==
    /\ pc = "returned"
    /\ \E m \in Matches : m.side_closed = "LONG"
    /\ \E m \in Matches : m.side_closed = "SHORT"
    /\ \E m \in Matches : m.qty < TradeById(m.entry_trade_id).quantity
    /\ \E m \in Matches : m.exit_trade_id < m.entry_trade_id


\* No two trades of the list have the same trade_time.
DistinctTimes ==
    \A j, k \in 1..Len(trades) : trades[j].trade_time = trades[k].trade_time => j = k

\* C34: when the trade_time values of a list are pairwise distinct,
\* compute_fifo returns the same matches in the same order, the same open
\* lots and the same marks for every permutation of the list.
C34_PermutationInvariance ==
    (pc = "returned" /\ previous # <<>> /\ DistinctTimes) =>
        /\ realized = previous[1]
        /\ positions = previous[2]
        /\ mark = previous[3]

\* Three trades at distinct instants, handed over in an order that is not
\* their time order after a call on another order, give two matches and an
\* open lot.
C34_Witness ==
    /\ pc = "returned"
    /\ previous # <<>>
    /\ DistinctTimes
    /\ Len(trades) = MaxPermutedTrades
    /\ trades # trades_sorted
    /\ \E k \in 1..Len(trades) : trades[k].id # k
    /\ Len(realized) = 2
    /\ OpenQty(<<"B">>) > 0


\* C37: compute_fifo emits its matches in non-decreasing exit_time order, the
\* matches of one closing trade next to each other and in the order of the
\* lots they closed, oldest lot first; so the stable sort by exit_time that
\* the analytics apply to the matches leaves them in the order of emission.
C37_EmissionOrder ==
    /\ \A j, k \in 1..Len(realized) :
          j < k =>
              /\ realized[j].exit_time <= realized[k].exit_time
              /\ Pos(realized[j].exit_trade_id) <= Pos(realized[k].exit_trade_id)
              /\ realized[j].exit_trade_id = realized[k].exit_trade_id =>
                    /\ \A l \in j..k :
                          realized[l].exit_trade_id = realized[j].exit_trade_id
                    /\ Pos(realized[j].entry_trade_id) < Pos(realized[k].entry_trade_id)
                    /\ realized[j].entry_time <= realized[k].entry_time
    /\ SortedByExit(realized) = realized

\* A trade closed two lots of an account handed over in an order that is not
\* the order of processing.
C37_Witness ==
    /\ pc = "returned"
    /\ trades # trades_sorted
    /\ \E j, k \in 1..Len(realized) :
          /\ j < k
          /\ realized[j].exit_trade_id = realized[k].exit_trade_id
          /\ realized[j].entry_trade_id # realized[k].entry_trade_id

\* Two trades closed parts of one lot, at two instants or at the same one.
C37_WitnessTwoExits ==
    /\ pc = "returned"
    /\ trades # trades_sorted
    /\ \E j, k \in 1..Len(realized) :
          /\ j < k
          /\ realized[j].exit_trade_id # realized[k].exit_trade_id
          /\ realized[j].exit_time < realized[k].exit_time
    /\ ~DistinctTimes


\* The rows of open_positions of a symbol.
OpenRowsOf(sym) ==
    {k \in 1..Len(snapshot.open_positions) : snapshot.open_positions[k].symbol = sym}

\* C35: open_positions has at most one row per symbol, never a LONG and a
\* SHORT row of the same symbol; a symbol has a row exactly when it has open
\* lots, the row's quantity is the sum of the quantities of the open lots of
\* its side and its unrealized_pnl is the figure of the symbol; so the rows'
\* unrealized_pnl add up to the snapshot's unrealized_pnl.
C35_OpenPositionRows ==
    (pc = "done" /\ snapshot.status = "ok") =>
        LET rows == snapshot.open_positions
        IN /\ \A j, k \in 1..Len(rows) : rows[j].symbol = rows[k].symbol => j = k
           /\ \A sym \in Symbols : (OpenRowsOf(sym) # {}) <=> (OpenQty(sym) > 0)
           /\ \A k \in 1..Len(rows) :
                 /\ rows[k].side \in {"LONG", "SHORT"}
                 /\ rows[k].quantity > 0
                 /\ rows[k].quantity
                       = OpenQtyOf(rows[k].symbol,
                                   IF rows[k].side = "LONG" THEN "long" ELSE "short")
                 /\ rows[k].quantity = OpenQty(rows[k].symbol)
                 /\ rows[k].unrealized_pnl
                       = LongValue(LotsOf(rows[k].symbol, "long"), rows[k].mark_price)
                         + ShortValue(LotsOf(rows[k].symbol, "short"), rows[k].mark_price)
           /\ SumFn([k \in 1..Len(rows) |-> rows[k].unrealized_pnl], 1..Len(rows))
                 = snapshot.unrealized_pnl

\* A long row and a short row of two symbols, with unrealized figures that
\* do not cancel.
C35_Witness ==
    /\ pc = "done"
    /\ snapshot.status = "ok"
    /\ Len(snapshot.open_positions) = 2
    /\ snapshot.open_positions[1].side # snapshot.open_positions[2].side
    /\ snapshot.open_positions[1].unrealized_pnl # 0
    /\ snapshot.unrealized_pnl # 0

\* A symbol bought and sold in part keeps one row, of what is left.
C35_WitnessPartlyClosed ==
    /\ pc = "done"
    /\ snapshot.status = "ok"
    /\ Len(realized) = 1
    /\ Len(snapshot.open_positions) = 1
    /\ snapshot.open_positions[1].quantity < MaxQty
    /\ snapshot.open_positions[1].unrealized_pnl # 0


\* The effective marks of the request being answered.
EffectiveMarks == EffectiveMark(mark, _normalize_marks(request.marks))

\* C36: over trades of price > 0, every symbol with open lots (every traded
\* symbol, in fact) has an effective mark, and that mark is > 0: a mark of the
\* caller of value > 0 or the price of the symbol's last trade; so whatever
\* marks the caller sends no open position is valued at the 0.0 that
\* compute_unrealized takes for a symbol without a mark.
C36_EffectiveMarkPositive ==
    pc = "done" =>
        LET effective_mark == EffectiveMarks
        IN /\ \A sym \in DOMAIN positions :
                 /\ sym \in DOMAIN effective_mark
                 /\ effective_mark[sym] > 0
                 /\ \/ effective_mark[sym] \in SuppliedFor(sym)
                    \/ effective_mark[sym] = LastTradePrice(sym)
           /\ snapshot.status = "ok" =>
                 \A k \in 1..Len(snapshot.open_positions) :
                     LET row == snapshot.open_positions[k]
                     IN /\ row.mark_price = effective_mark[row.symbol]
                        /\ row.mark_price > 0
                        /\ row.unrealized_pnl
                              = LongValue(LotsOf(row.symbol, "long"), row.mark_price)
                                + ShortValue(LotsOf(row.symbol, "short"), row.mark_price)

\* The caller sent a mark of 0 or less for a symbol with open lots, which is
\* valued at the price of its last trade.
C36_Witness ==
    /\ pc = "done"
    /\ snapshot.status = "ok"
    /\ \E k \in 1..Len(snapshot.open_positions) :
          LET row == snapshot.open_positions[k]
          IN /\ SuppliedFor(row.symbol) # {}
             /\ \A v \in SuppliedFor(row.symbol) : v <= 0
             /\ row.mark_price = LastTradePrice(row.symbol)
             /\ row.unrealized_pnl # 0


---------------------------------------------------------------------------
\* What the properties of the peak and of the expectancy speak about.

\* The matches after match i and not after match j, in exit-time order.
MatchesBetween(i, j) ==
    {k \in 1..Len(realized) : k # i /\ ExitNotAfter(i, k) /\ ExitNotAfter(k, j)}

\* What the account lost from match i to match j: the pnl of match i itself
\* is no part of it.
LossesAfter ==
    {-SumFn([k \in 1..Len(realized) |-> realized[k].pnl], MatchesBetween(p[1], p[2])) :
        p \in {q \in (1..Len(realized)) \X (1..Len(realized)) :
                  ExitNotAfter(q[1], q[2])}}

\* The first match in exit-time order.
FirstMatch == CHOOSE i \in 1..Len(realized) : \A j \in 1..Len(realized) : ExitNotAfter(i, j)

\* C38: the running peak of the drawdown starts at the first equity point,
\* not at an equity of 0: an account with a single match, a loss included,
\* has drawdown 0, and in general the drawdown is the largest loss from one
\* match to a later one, in which the pnl of the first match has no part; a
\* first loss followed by no further loss gives drawdown 0.
C38_PeakFromFirstPoint ==
    (pc = "done" /\ snapshot.status = "ok") =>
        /\ Len(realized) = 1 => snapshot.drawdown = 0
        /\ realized # <<>> =>
              /\ snapshot.drawdown \in LossesAfter
              /\ \A d \in LossesAfter : d <= snapshot.drawdown
              /\ (\A k \in 1..Len(realized) : k # FirstMatch => realized[k].pnl >= 0)
                    => snapshot.drawdown = 0

\* A loss, a gain, a smaller loss: the drawdown is the last loss, not the
\* first, which a peak of 0 would have counted.
C38_Witness ==
    /\ pc = "done"
    /\ snapshot.status = "ok"
    /\ Len(realized) = 3
    /\ realized[1].pnl < 0
    /\ realized[2].pnl > 0
    /\ realized[3].pnl < 0
    /\ snapshot.drawdown = -realized[3].pnl
    /\ snapshot.drawdown < -realized[1].pnl

\* An account whose only match is a loss.
C38_WitnessSingleLoss ==
    /\ pc = "done"
    /\ snapshot.status = "ok"
    /\ Len(realized) = 1
    /\ realized[1].pnl < 0
    /\ snapshot.drawdown = 0

\* C39: the expectancy of the overview is the mean pnl of the matches of
\* non-zero pnl, (sum of winning pnl + sum of losing pnl) / (number of wins +
\* number of losses), and is null exactly when no match has non-zero pnl.
C39_Expectancy ==
    (pc = "done" /\ snapshot.status = "ok") =>
        LET e == snapshot.advanced_metrics.expectancy
            decided == Cardinality(Winning) + Cardinality(Losing)
        IN /\ e.kind \in {"null", "value"}
           /\ (e.kind = "null") <=> (decided = 0)
           /\ e.kind = "value" =>
                 /\ e.den > 0
                 /\ e.num * decided = (GrossProfit + GrossLoss) * e.den

\* A win, a loss and a match of pnl 0: the mean is over the first two.
C39_Witness ==
    /\ pc = "done"
    /\ snapshot.status = "ok"
    /\ Len(realized) = 3
    /\ Cardinality(Winning) = 1
    /\ Cardinality(Losing) = 1
    /\ snapshot.advanced_metrics.expectancy.kind = "value"
    /\ snapshot.advanced_metrics.expectancy.num # 0

\* Matches, all of pnl 0: no expectancy.
C39_WitnessNull ==
    /\ pc = "done"
    /\ snapshot.status = "ok"
    /\ realized # <<>>
    /\ snapshot.advanced_metrics.expectancy.kind = "null"


---------------------------------------------------------------------------
\* What the property of the breakdowns as partitions speaks about.

\* The matches of a symbol.
BySymbol(key) == {k \in 1..Len(realized) : realized[k].symbol = key}

\* Rows that partition the matches: the groups are pairwise different, none
\* is empty, their counts add up to the number of matches and their pnl to
\* the realized pnl, and they come in non-increasing order of |pnl|.
Partitions(rows) ==
    /\ \A i, j \in 1..Len(rows) : rows[i].key = rows[j].key => i = j
    /\ \A i \in 1..Len(rows) : rows[i].matches >= 1
    /\ SumFn([i \in 1..Len(rows) |-> rows[i].matches], 1..Len(rows)) = Len(realized)
    /\ SumFn([i \in 1..Len(rows) |-> rows[i].pnl], 1..Len(rows)) = SumPnl(realized)
    /\ \A i, j \in 1..Len(rows) : i < j => Abs(rows[i].pnl) >= Abs(rows[j].pnl)

\* The matches whose exit trade has no tag of a field are in the group of
\* the placeholder.
UntaggedInDash(rows, field) ==
    LET untagged == {k \in 1..Len(realized) :
                        JournalTag(realized[k].exit_trade_id, field) = <<>>}
    IN untagged # {} =>
          \E i \in 1..Len(rows) :
              /\ rows[i].key = Dash
              /\ rows[i].matches = Cardinality(untagged)
              /\ rows[i].pnl = PnlOf(untagged)

\* C40: each breakdown of performance_from_trades (by_symbol, by_strategy,
\* by_emotion) partitions the realized matches: every match is counted in
\* exactly one group, the untagged ones in the group of the placeholder; the
\* groups' match counts add up to the number of matches, their pnl to the
\* total realized pnl, and the groups are listed in non-increasing |pnl|.
C40_BreakdownsPartition ==
    (pc = "done" /\ request.fn = "performance") =>
        /\ Partitions(snapshot.breakdowns.by_symbol)
        /\ Partitions(snapshot.breakdowns.by_strategy)
        /\ Partitions(snapshot.breakdowns.by_emotion)
        /\ \A i \in 1..Len(snapshot.breakdowns.by_symbol) :
              LET row == snapshot.breakdowns.by_symbol[i]
              IN /\ row.matches = Cardinality(BySymbol(row.key))
                 /\ row.pnl = PnlOf(BySymbol(row.key))
        /\ UntaggedInDash(snapshot.breakdowns.by_strategy, "strategy")
        /\ UntaggedInDash(snapshot.breakdowns.by_emotion, "emotion")

\* Three matches in three groups by strategy, one of them the placeholder's,
\* the group of the largest loss listed before the group of a smaller gain.
C40_Witness ==
    /\ pc = "done"
    /\ request.fn = "performance"
    /\ Len(realized) = 3
    /\ Len(snapshot.breakdowns.by_strategy) = 3
    /\ \E i \in 1..3 : snapshot.breakdowns.by_strategy[i].key = Dash
    /\ snapshot.breakdowns.by_strategy[1].pnl < 0
    /\ snapshot.breakdowns.by_strategy[2].pnl > 0
    /\ Len(snapshot.breakdowns.by_symbol) = 1
    /\ snapshot.breakdowns.by_symbol[1].matches = 3

====
